---- MODULE Spec2Model ----
(***************************************************************************)
(* Model of the technical-analysis engine of AI-Index-Analyser:            *)
(* the TechnicalAnalysis object of analysis.py (fetch_data, indicator      *)
(* snapshot, Fibonacci levels, support/resistance levels, trend strength,  *)
(* probabilities, price targets, market sentiment), the CandlestickPatterns *)
(* detector of candlestick_patterns.py and the analysis run of main.py.    *)
(*                                                                         *)
(* Three specifications share the state and the operators: Spec (the       *)
(* level calculations on many short series), SpecScore (the scoring on     *)
(* many indicator snapshots) and SpecPipeline (the analysis run and the    *)
(* pattern detector).                                                      *)
(*                                                                         *)
(* Units.  Prices of a candle are integers.  A level (Fibonacci, pivot,    *)
(* support/resistance) is an integer number of 1/PScale price units, so   *)
(* that the thirds of the pivot formula and the three decimals of the      *)
(* Fibonacci ratios are exact.  Rounded prices are in hundredths, rounded  *)
(* distances in hundredths of a percent, probabilities in hundredths of a  *)
(* percent.  Indicator values produced by the indicator library are        *)
(* tagged values: a number (in the unit named at IndicatorUnits) or NaN.   *)
(***************************************************************************)
EXTENDS Integers, Sequences, FiniteSets, TLC

\* ------------------------------------------------------------------ bounds
\* rows of a fetched series
MaxLen == 3

VARIABLES data, indicators, fibonacci_levels, support_resistance,
          pattern_detector, ret

vars == <<data, indicators, fibonacci_levels, support_resistance,
          pattern_detector, ret>>

\* ------------------------------------------------------- general helpers
Range(s) == {s[i] : i \in 1..Len(s)}

RECURSIVE SeqMax(_)
SeqMax(s) ==
    IF Len(s) = 1 THEN s[1]
    ELSE LET m == SeqMax(Tail(s)) IN IF s[1] > m THEN s[1] ELSE m

RECURSIVE SeqMin(_)
SeqMin(s) ==
    IF Len(s) = 1 THEN s[1]
    ELSE LET m == SeqMin(Tail(s)) IN IF s[1] < m THEN s[1] ELSE m

Abs(x) == IF x < 0 THEN -x ELSE x

\* Python's slice s[:n] for n >= 0
Take(s, n) == IF Len(s) <= n THEN s ELSE SubSeq(s, 1, n)

\* Python's slice s[-n:] for n >= 1
LastN(s, n) == IF Len(s) <= n THEN s ELSE SubSeq(s, Len(s) - n + 1, Len(s))

\* Python's sorted(s, key=...): stable, ascending.  The list is given as
\* <<key, item>> pairs; equal keys keep their order.
RECURSIVE InsertPair(_, _)
InsertPair(p, s) ==
    IF s = <<>> THEN <<p>>
    ELSE IF p[1] < s[1][1] THEN <<p>> \o s
    ELSE <<s[1]>> \o InsertPair(p, Tail(s))

RECURSIVE SortPairs(_)
SortPairs(s) ==
    IF s = <<>> THEN <<>>
    ELSE InsertPair(s[Len(s)], SortPairs(SubSeq(s, 1, Len(s) - 1)))

sorted(s) ==
    LET ps == SortPairs([i \in 1..Len(s) |-> <<s[i], s[i]>>])
    IN [i \in 1..Len(s) |-> ps[i][2]]

\* pandas' Series.unique(): the distinct values in order of first appearance
RECURSIVE unique(_)
unique(s) ==
    IF s = <<>> THEN <<>>
    ELSE LET u == unique(SubSeq(s, 1, Len(s) - 1))
             x == s[Len(s)]
         IN IF x \in Range(u) THEN u ELSE Append(u, x)

\* round(a / b) for b > 0, ties to the even neighbour (Python's round)
RoundDiv(a, b) ==
    LET q == a \div b
        r == a - q * b
    IN IF 2 * r < b THEN q
       ELSE IF 2 * r > b THEN q + 1
       ELSE IF q % 2 = 0 THEN q ELSE q + 1

\* ------------------------------------------------------- values and data
\* A float produced by the indicator library: a number or NaN.
Num(x) == [t |-> "num", v |-> x]
NaN == [t |-> "nan", v |-> 0]

IsNum(x) == x.t = "num"
\* Python truthiness of a float: NaN is truthy, 0.0 is falsy
Truthy(x) == x.t = "nan" \/ x.v # 0
\* comparisons with NaN are False
Gt(x, c) == IsNum(x) /\ x.v > c
Lt(x, c) == IsNum(x) /\ x.v < c

\* levels are kept in 1/PScale price units: thirds (pivots) of thousandths (ratios)
PScale == 3 * 1000

Prices == 1..3

\* one OHLC candle of the fetched series
Candles ==
    {[Open |-> o, High |-> h, Low |-> l, Close |-> c] :
        o \in Prices, h \in Prices, l \in Prices, c \in Prices}

WellFormed(c) ==
    /\ c.Low <= c.Open /\ c.Open <= c.High
    /\ c.Low <= c.Close /\ c.Close <= c.High


\* The indicator columns calculate_all_indicators attaches to the frame: the
\* value in the last row of each column the scoring reads (IndicatorUnits),
\* and OBV five rows back and averaged over the last 20 rows.
\*   RSI, Stoch_K, MFI, ADX, ADX_pos, ADX_neg : points of 0..100
\*   MACD_diff                                : 1/10000
\*   BB_percent                               : 1/100
\*   EMA[p]                                   : 1/1000 price units
\*   OBV, OBV_5back, OBV_avg20                : volume units
NoCols ==
    [attached |-> FALSE, RSI |-> NaN, MACD_diff |-> NaN, Stoch_K |-> NaN,
     BB_percent |-> NaN, MFI |-> NaN, ADX |-> NaN, ADX_pos |-> NaN,
     ADX_neg |-> NaN, EMA |-> <<NaN, NaN, NaN, NaN>>,
     OBV |-> NaN, OBV_5back |-> NaN, OBV_avg20 |-> NaN]

\* self.data: None, or a frame of rows (possibly none) and indicator columns
NoneData == [isNone |-> TRUE, rows |-> <<>>, cols |-> NoCols]
Frame(rows) == [isNone |-> FALSE, rows |-> rows, cols |-> NoCols]

\* `self.data is None or self.data.empty`
no_data(self) == self.data.isNone \/ self.data.rows = <<>>

\* self.data['Close'].iloc[-1]
current_price(self) == self.data.rows[Len(self.data.rows)].Close

EmptyIndicators ==
    [empty |-> TRUE, RSI |-> NaN, MACD_histogram |-> NaN, Stochastic_K |-> NaN,
     Bollinger_percent |-> NaN, MFI |-> NaN, ADX_adx |-> NaN,
     ADX_di_plus |-> NaN, ADX_di_minus |-> NaN, OBV |-> NaN,
     Pivots |-> [pivot |-> 0, r |-> <<0, 0, 0>>, s |-> <<0, 0, 0>>]]

EmptyFibonacci ==
    [empty |-> TRUE, high |-> 0, low |-> 0, retracement |-> <<>>, extension |-> <<>>]

EmptySupportResistance ==
    [empty |-> TRUE, support |-> <<>>, resistance |-> <<>>, current_price |-> 0]

\* TechnicalAnalysis.__init__
NewAnalysis ==
    [data |-> NoneData,
     indicators |-> EmptyIndicators,
     fibonacci_levels |-> EmptyFibonacci,
     support_resistance |-> EmptySupportResistance]

\* the value a call returned: None, a value, or the exception it raised
RetNone(op) == [op |-> op, args |-> <<>>, kind |-> "None", value |-> 0]
RetValue(op, v) == [op |-> op, args |-> <<>>, kind |-> "value", value |-> v]
RetRaise(op, e) == [op |-> op, args |-> <<>>, kind |-> "raise", value |-> e]

Result(self, r) == [self |-> self, ret |-> r]

\* the record of a call together with the arguments it was made with
WithArgs(r, args) == [op |-> r.op, args |-> args, kind |-> r.kind, value |-> r.value]

\* ------------------------------------------------------------ fetch_data
\* outcome "error": ticker.history raised, self.data is left as it was;
\* otherwise self.data is the frame returned (an empty one makes it return False)
fetch_data(self, outcome, rows) ==
    IF outcome = "error" THEN Result(self, RetValue("fetch_data", FALSE))
    ELSE Result([self EXCEPT !.data = Frame(rows)],
                RetValue("fetch_data", rows # <<>>))

\* ------------------------------------------------ calculate_fibonacci_levels
FIBONACCI_LEVELS == <<0, 236, 382, 500, 618, 786, 1000, 1618, 2618>>

EXTENSION_LEVELS == <<1272, 1414, 1618, 2000, 2618>>

\* the retracement measured upwards from the low
retracement_level_from_low(high, low, level) == 3 * (1000 * low + (high - low) * level)

\* high - (diff * level), in 1/PScale units; level in thousandths
retracement_level(high, low, level) == 3 * (1000 * high - (high - low) * level)

\* high + (diff * (level - 1))
extension_level(high, low, level) == 3 * (1000 * high + (high - low) * (level - 1000))

calculate_fibonacci_levels(self) ==
    IF no_data(self) THEN Result(self, RetNone("calculate_fibonacci_levels"))
    ELSE
      LET rows == self.data.rows
          high == SeqMax([i \in 1..Len(rows) |-> rows[i].High])
          low == SeqMin([i \in 1..Len(rows) |-> rows[i].Low])
          fib == [empty |-> FALSE, high |-> high, low |-> low,
                  retracement |->
                      [k \in 1..Len(FIBONACCI_LEVELS) |->
                          [level |-> FIBONACCI_LEVELS[k],
                           price |-> retracement_level(high, low, FIBONACCI_LEVELS[k])]],
                  extension |->
                      [k \in 1..Len(EXTENSION_LEVELS) |->
                          [level |-> EXTENSION_LEVELS[k],
                           price |-> extension_level(high, low, EXTENSION_LEVELS[k])]]]
      IN Result([self EXCEPT !.fibonacci_levels = fib],
                RetValue("calculate_fibonacci_levels", fib))

\* ------------------------------------------------ identify_support_resistance
\* df[col].rolling(window, center=True).min()/.max() at row i: the window is
\* rows i - window \div 2 .. i + (window - 1) \div 2; a window that does not
\* lie inside the frame gives NaN, which equals no price.
window_complete(n, window, i) ==
    /\ i - (window \div 2) >= 1
    /\ i + ((window - 1) \div 2) <= n

window_rows(window, i) == (i - (window \div 2))..(i + ((window - 1) \div 2))

\* the minimum over the part of the window that lies inside the frame
is_local_min_clipped(rows, window, i) ==
    \A j \in window_rows(window, i) \cap (1..Len(rows)) : rows[i].Low <= rows[j].Low

\* df['Low'] == df['min']
is_local_min(rows, window, i) ==
    /\ window_complete(Len(rows), window, i)
    /\ \A j \in window_rows(window, i) : rows[i].Low <= rows[j].Low

\* df['High'] == df['max']
is_local_max(rows, window, i) ==
    /\ window_complete(Len(rows), window, i)
    /\ \A j \in window_rows(window, i) : rows[i].High >= rows[j].High

\* df[df['Low'] == df['min']]['Low'] over the first n rows
RECURSIVE local_lows(_, _, _)
local_lows(rows, window, n) ==
    IF n = 0 THEN <<>>
    ELSE LET rest == local_lows(rows, window, n - 1)
         IN IF is_local_min(rows, window, n) THEN Append(rest, rows[n].Low) ELSE rest

\* df[df['High'] == df['max']]['High'] over the first n rows
RECURSIVE local_highs(_, _, _)
local_highs(rows, window, n) ==
    IF n = 0 THEN <<>>
    ELSE LET rest == local_highs(rows, window, n - 1)
         IN IF is_local_max(rows, window, n) THEN Append(rest, rows[n].High) ELSE rest

\* `level <= current_price`: a level at the price counted as support
support_side_inclusive(level, price) == level <= price

\* `level < current_price` / `level > current_price`
support_side(level, price) == level < price

\* `level >= current_price`: a level at the price counted as resistance
resistance_side_inclusive(level, price) == level >= price

resistance_side(level, price) == level > price

\* [level for level in all_support if level < current_price], and the same
\* for resistance
RECURSIVE filter_below(_, _)
filter_below(s, price) ==
    IF s = <<>> THEN <<>>
    ELSE LET rest == filter_below(SubSeq(s, 1, Len(s) - 1), price)
             x == s[Len(s)]
         IN IF support_side(x, price) THEN Append(rest, x) ELSE rest

RECURSIVE filter_above(_, _)
filter_above(s, price) ==
    IF s = <<>> THEN <<>>
    ELSE LET rest == filter_above(SubSeq(s, 1, Len(s) - 1), price)
             x == s[Len(s)]
         IN IF resistance_side(x, price) THEN Append(rest, x) ELSE rest

\* the first num_levels of the sorted list instead of the last
keep_support_lowest(levels, num_levels) ==
    IF Len(levels) > num_levels THEN Take(sorted(levels), num_levels) ELSE levels

\* sorted(levels)[-num_levels:] if len(levels) > num_levels else levels
keep_support(levels, num_levels) ==
    IF Len(levels) > num_levels THEN LastN(sorted(levels), num_levels) ELSE levels

\* sorted(levels)[:num_levels] if len(levels) > num_levels else levels
keep_resistance(levels, num_levels) ==
    IF Len(levels) > num_levels THEN Take(sorted(levels), num_levels) ELSE levels

all_support(rows, window) == unique(local_lows(rows, window, Len(rows)))

all_resistance(rows, window) == unique(local_highs(rows, window, Len(rows)))

\* a variant that adds the levels found to the lists already stored
identify_support_resistance_accumulating(self, window, num_levels) ==
    IF no_data(self) THEN Result(self, RetNone("identify_support_resistance"))
    ELSE
      LET rows == self.data.rows
          price == current_price(self)
          sr == [empty |-> FALSE,
                 support |-> self.support_resistance.support \o
                     keep_support(filter_below(all_support(rows, window), price),
                                  num_levels),
                 resistance |-> self.support_resistance.resistance \o
                     keep_resistance(filter_above(all_resistance(rows, window), price),
                                     num_levels),
                 current_price |-> price]
      IN Result([self EXCEPT !.support_resistance = sr],
                RetValue("identify_support_resistance", sr))

identify_support_resistance(self, window, num_levels) ==
    IF no_data(self) THEN Result(self, RetNone("identify_support_resistance"))
    ELSE
      LET rows == self.data.rows
          price == current_price(self)
          support_levels ==
              keep_support(filter_below(all_support(rows, window), price), num_levels)
          resistance_levels ==
              keep_resistance(filter_above(all_resistance(rows, window), price), num_levels)
          sr == [empty |-> FALSE, support |-> support_levels,
                 resistance |-> resistance_levels, current_price |-> price]
      IN Result([self EXCEPT !.support_resistance = sr],
                RetValue("identify_support_resistance", sr))


\* ------------------------------------------------ calculate_all_indicators
\* _calculate_pivots, from the last row; values in 1/PScale units
calculate_pivots(last) ==
    LET H == 3000 * last.High
        L == 3000 * last.Low
        pivot == 1000 * (last.High + last.Low + last.Close)
    IN [pivot |-> pivot,
        r |-> <<2 * pivot - L, pivot + (H - L), H + 2 * (pivot - L)>>,
        s |-> <<2 * pivot - H, pivot - (H - L), L - 2 * (H - pivot)>>]

\* ------------------------------------------- _calculate_moving_averages
\* The columns _calculate_moving_averages attaches to df, row by row, in
\* 1/1000 price units (rounded).  calculate_all_indicators above keeps of each
\* column the value of the last row only.
\* INDICATOR_PARAMS["sma_periods"] and ["ema_periods"]; the trend strength
\* reads the EMA columns by their position in cols.EMA
SMA_PERIODS == <<>>
EMA_PERIODS == <<9, 21, 50, 200>>

RECURSIVE SumSeq(_)
SumSeq(s) == IF s = <<>> THEN 0 ELSE s[1] + SumSeq(SubSeq(s, 2, Len(s)))

\* df['Close'].rolling(window=period).mean(): NaN until `period` rows are there
rolling_mean(closes, period) ==
    [i \in 1..Len(closes) |->
        IF i < period THEN NaN
        ELSE Num(RoundDiv(1000 * SumSeq(SubSeq(closes, i - period + 1, i)), period))]

\* df['Close'].ewm(span=period, adjust=False).mean(): the first value is the
\* first Close, each further one moves by 2 / (span + 1) towards the Close of
\* its row; no row is left NaN (min_periods is not given)
RECURSIVE ewm_mean(_, _)
ewm_mean(closes, span) ==
    IF Len(closes) = 0 THEN <<>>
    ELSE IF Len(closes) = 1 THEN <<Num(1000 * closes[1])>>
    ELSE LET before == ewm_mean(Take(closes, Len(closes) - 1), span)
             last == before[Len(before)].v
         IN Append(before,
                Num(RoundDiv((span - 1) * last + 2 * 1000 * closes[Len(closes)],
                             span + 1)))

calculate_moving_averages(rows) ==
    LET closes == [i \in 1..Len(rows) |-> rows[i].Close]
    IN [sma |-> [k \in 1..Len(SMA_PERIODS) |-> rolling_mean(closes, SMA_PERIODS[k])],
        ema |-> [k \in 1..Len(EMA_PERIODS) |-> ewm_mean(closes, EMA_PERIODS[k])]]

\* `computed` are the columns the indicator library computes for the rows of
\* the frame.  The library is deterministic: on a frame whose columns are
\* already attached it computes the same columns again (df is a copy of
\* self.data and every column is overwritten from Open/High/Low/Close/Volume).
calculate_all_indicators(self, computed) ==
    IF no_data(self) THEN Result(self, RetNone("calculate_all_indicators"))
    ELSE
      LET rows == self.data.rows
          df == IF self.data.cols.attached THEN self.data.cols ELSE computed
          ind == [empty |-> FALSE,
                  RSI |-> df.RSI,
                  MACD_histogram |-> df.MACD_diff,
                  Stochastic_K |-> df.Stoch_K,
                  Bollinger_percent |-> df.BB_percent,
                  MFI |-> df.MFI,
                  ADX_adx |-> df.ADX,
                  ADX_di_plus |-> df.ADX_pos,
                  ADX_di_minus |-> df.ADX_neg,
                  OBV |-> df.OBV,
                  Pivots |-> calculate_pivots(rows[Len(rows)])]
          frame == [self.data EXCEPT !.cols = df]
      IN Result([self EXCEPT !.indicators = ind, !.data = frame],
                RetValue("calculate_all_indicators", frame))

\* ------------------------------------------------ calculate_trend_strength
\* The running (trend_score, total_weight, reasons); score and weight are
\* kept doubled, so that the halves of the MACD and Bollinger factors are exact.
Acc0 == [score |-> 0, weight |-> 0, reasons |-> <<>>]

Contribute(acc, score2, weight2, reason) ==
    [score |-> acc.score + score2,
     weight |-> acc.weight + weight2,
     reasons |-> IF reason = "" THEN acc.reasons ELSE Append(acc.reasons, reason)]

rsi_factor(acc, ind) ==
    IF ~Truthy(ind.RSI) THEN acc
    ELSE IF Gt(ind.RSI, 70) THEN Contribute(acc, 4, 4, "RSI ueberkauft")
    ELSE IF Gt(ind.RSI, 50) THEN Contribute(acc, 2, 2, "RSI bullisch")
    ELSE IF Lt(ind.RSI, 30) THEN Contribute(acc, -4, 4, "RSI ueberverkauft")
    ELSE Contribute(acc, -2, 2, "RSI bearisch")

\* macd.get('histogram') is not None: a NaN histogram is not None
macd_factor(acc, ind) ==
    IF Gt(ind.MACD_histogram, 0) THEN Contribute(acc, 3, 3, "MACD positiv")
    ELSE Contribute(acc, -3, 3, "MACD negativ")

adx_factor(acc, ind) ==
    IF Truthy(ind.ADX_adx) /\ Gt(ind.ADX_adx, 25) THEN
        IF Truthy(ind.ADX_di_plus) /\ Truthy(ind.ADX_di_minus) THEN
            IF IsNum(ind.ADX_di_plus) /\ IsNum(ind.ADX_di_minus)
               /\ ind.ADX_di_plus.v > ind.ADX_di_minus.v
            THEN Contribute(acc, 4, 4, "ADX bullisch (DI+ > DI-)")
            ELSE Contribute(acc, -4, 4, "ADX bearisch (DI- > DI+)")
        ELSE acc
    ELSE IF Truthy(ind.ADX_adx) THEN Contribute(acc, 0, 0, "ADX schwach")
    ELSE acc

\* +1 for an EMA below the current price, -1 otherwise; NaN is skipped
ma_vote(price, ma_value) ==
    IF ~IsNum(ma_value) THEN 0
    ELSE IF 1000 * price > ma_value.v THEN 1 ELSE -1

ma_factor(acc, self) ==
    IF no_data(self) \/ ~self.data.cols.attached THEN acc
    ELSE
      LET price == current_price(self)
          ema == self.data.cols.EMA
          used == {k \in 1..Len(EMA_PERIODS) : IsNum(ema[k])}
          ma_above == Cardinality({k \in used : ma_vote(price, ema[k]) = 1})
          ma_below == Cardinality({k \in used : ma_vote(price, ema[k]) = -1})
          ma_weight == Cardinality(used)
      IN IF ma_weight > 0
         THEN Contribute(acc, 2 * (ma_above - ma_below), 2 * ma_weight, "EMAs")
         ELSE acc

\* bb.get('percent') is not None: a NaN percent is not None
bb_factor(acc, ind) ==
    IF Gt(ind.Bollinger_percent, 80) THEN Contribute(acc, -1, 1, "BB oben (Umkehr?)")
    ELSE IF Lt(ind.Bollinger_percent, 20) THEN Contribute(acc, 1, 1, "BB unten (Umkehr?)")
    ELSE Contribute(acc, 0, 1, "")

\* obv_current > obv_prev * 1.02 / obv_current < obv_prev * 0.98
obv_rising(cur, prev) == IsNum(cur) /\ IsNum(prev) /\ 100 * cur.v > 102 * prev.v
obv_falling(cur, prev) == IsNum(cur) /\ IsNum(prev) /\ 100 * cur.v < 98 * prev.v

obv_factor(acc, self) ==
    IF ~(Truthy(self.indicators.OBV) /\ ~self.data.isNone /\ self.data.cols.attached)
    THEN acc
    ELSE
      LET obv_current == self.data.cols.OBV
          obv_prev == IF Len(self.data.rows) > 5
                      THEN self.data.cols.OBV_5back ELSE obv_current
      IN IF obv_rising(obv_current, obv_prev) THEN Contribute(acc, 2, 2, "OBV steigend")
         ELSE IF obv_falling(obv_current, obv_prev) THEN Contribute(acc, -2, 2, "OBV fallend")
         ELSE Contribute(acc, 0, 2, "")

\* a score as the fraction n / d, d > 0
Frac(n, d) == [n |-> n, d |-> d]
FracGe(x, c) == x.n >= c * x.d
FracLt(x, c) == x.n < c * x.d
FracAbsLt(x, c) == Abs(x.n) < c * x.d

\* (trend_score / total_weight) * 50, then min(100, max(-100, .)); 0 without weight
\* (trend_score / total_weight) * 100 in place of * 50
normalize_percent(acc) ==
    IF acc.weight > 0 THEN
        LET normalized_score == Frac(acc.score * 100, acc.weight)
        IN IF FracGe(normalized_score, 100) THEN Frac(100, 1)
           ELSE IF FracLt(normalized_score, -100) THEN Frac(-100, 1)
           ELSE normalized_score
    ELSE Frac(0, 1)

normalize(acc) ==
    IF acc.weight > 0 THEN
        LET normalized_score == Frac(acc.score * 50, acc.weight)
        IN IF FracGe(normalized_score, 100) THEN Frac(100, 1)
           ELSE IF FracLt(normalized_score, -100) THEN Frac(-100, 1)
           ELSE normalized_score
    ELSE Frac(0, 1)

\* the accumulator after all six factors, in the order of the code
trend_factors(self) ==
    LET ind == self.indicators
        a1 == rsi_factor(Acc0, ind)
        a2 == macd_factor(a1, ind)
        a3 == adx_factor(a2, ind)
        a4 == ma_factor(a3, self)
        a5 == bb_factor(a4, ind)
    IN obv_factor(a5, self)

\* returns (final_score, reasoning)
calculate_trend_strength(self) ==
    IF self.indicators.empty
    THEN [final_score |-> Frac(0, 1), reasoning |-> <<"Keine Indikatoren verfuegbar">>]
    ELSE
      LET acc == trend_factors(self)
      IN [final_score |-> normalize(acc),
          reasoning |-> IF acc.reasons # <<>> THEN Take(acc.reasons, 4)
                        ELSE <<"Keine klaren Signale">>]


\* ------------------------------------------------- calculate_probabilities
\* The tally (bullish, bearish, neutral, total) of the signal checklist.
Tally0 == [bullish |-> 0, bearish |-> 0, neutral |-> 0, total |-> 0]

Vote(t, side, counted) ==
    [bullish |-> t.bullish + (IF side = "bullish" THEN 1 ELSE 0),
     bearish |-> t.bearish + (IF side = "bearish" THEN 1 ELSE 0),
     neutral |-> t.neutral + (IF side = "neutral" THEN 1 ELSE 0),
     total |-> t.total + counted]

\* value > hi is bullish, value < lo bearish, anything else (NaN too) neutral
band_side(x, lo, hi) ==
    IF Gt(x, hi) THEN "bullish" ELSE IF Lt(x, lo) THEN "bearish" ELSE "neutral"

rsi_signal(t, ind) ==
    IF Truthy(ind.RSI) THEN Vote(t, band_side(ind.RSI, 40, 60), 1) ELSE t

\* abs(histogram) < 0.001 is neutral; total_signals is incremented in any case
macd_side(h) ==
    IF IsNum(h) /\ Abs(h.v) < 10 THEN "neutral"
    ELSE IF Gt(h, 0) THEN "bullish" ELSE "bearish"

macd_signal(t, ind) ==
    IF Truthy(ind.MACD_histogram)
    THEN Vote(t, macd_side(ind.MACD_histogram), 1)
    ELSE Vote(t, "", 1)

stochastic_signal(t, ind) ==
    IF Truthy(ind.Stochastic_K)
    THEN Vote(t, band_side(ind.Stochastic_K, 30, 70), 1)
    ELSE Vote(t, "", 1)

bollinger_signal(t, ind) ==
    IF Truthy(ind.Bollinger_percent)
    THEN Vote(t, band_side(ind.Bollinger_percent, 20, 80), 1)
    ELSE Vote(t, "", 1)

mfi_signal(t, ind) ==
    IF Truthy(ind.MFI) THEN Vote(t, band_side(ind.MFI, 40, 60), 1) ELSE t

\* diff_percent = ((current_price - ma_value) / ma_value) * 100 against +1 / -1,
\* for ma_value > 0 in 1/1000 price units
ma_side(price, ma_value) ==
    IF 100 * (1000 * price - ma_value.v) > ma_value.v THEN "bullish"
    ELSE IF 100 * (1000 * price - ma_value.v) < -ma_value.v THEN "bearish"
    ELSE "neutral"

ma_signal(t, self, k) ==
    IF self.data.cols.attached /\ IsNum(self.data.cols.EMA[k])
    THEN Vote(t, ma_side(current_price(self), self.data.cols.EMA[k]), 1)
    ELSE t

\* obv_diff = ((obv_current - obv_avg) / obv_avg) * 100 if obv_avg != 0 else 0,
\* against +5 / -5; a NaN makes both comparisons False
obv_side(cur, avg) ==
    IF ~IsNum(cur) \/ ~IsNum(avg) THEN "neutral"
    ELSE IF avg.v = 0 THEN "neutral"
    ELSE IF avg.v > 0 THEN
        IF 100 * (cur.v - avg.v) > 5 * avg.v THEN "bullish"
        ELSE IF 100 * (cur.v - avg.v) < -5 * avg.v THEN "bearish"
        ELSE "neutral"
    ELSE
        IF 100 * (cur.v - avg.v) < 5 * avg.v THEN "bullish"
        ELSE IF 100 * (cur.v - avg.v) > -5 * avg.v THEN "bearish"
        ELSE "neutral"

obv_signal(t, self) ==
    IF self.data.cols.attached
    THEN Vote(t, obv_side(self.data.cols.OBV, self.data.cols.OBV_avg20), 1)
    ELSE t

\* ADX < 20: two neutral votes
adx_signal(t, ind) ==
    IF Truthy(ind.ADX_adx) /\ Lt(ind.ADX_adx, 20)
    THEN [t EXCEPT !.neutral = @ + 2, !.total = @ + 2]
    ELSE t

\* the tally after the whole checklist, in the order of the code
signal_tally(self) ==
    LET ind == self.indicators
        t1 == rsi_signal(Tally0, ind)
        t2 == macd_signal(t1, ind)
        t3 == stochastic_signal(t2, ind)
        t4 == bollinger_signal(t3, ind)
        t5 == mfi_signal(t4, ind)
        t6 == ma_signal(t5, self, 3)
        t7 == ma_signal(t6, self, 4)
        t8 == obv_signal(t7, self)
    IN adx_signal(t8, ind)

\* round(prob, 2) in hundredths of a percent, for prob = signals / base * 100
share(signals, base) == RoundDiv(10000 * signals, base)

\* prob = (signals / total_signals) * 100; when the three do not add up to 100
\* (votes # total_signals) each is divided by their sum and multiplied by 100,
\* which makes it signals / votes * 100
normalised_share(signals, t) ==
    LET votes == t.bullish + t.bearish + t.neutral
    IN IF votes # t.total THEN share(signals, votes) ELSE share(signals, t.total)

probabilities_of(t) ==
    [bullish_probability |-> IF t.total > 0 THEN normalised_share(t.bullish, t) ELSE 3333,
     bearish_probability |-> IF t.total > 0 THEN normalised_share(t.bearish, t) ELSE 3333,
     neutral_probability |-> IF t.total > 0 THEN normalised_share(t.neutral, t) ELSE 3334,
     bullish_signals |-> t.bullish,
     bearish_signals |-> t.bearish,
     neutral_signals |-> t.neutral,
     total_signals |-> t.total]

\* total_prob = 0 with total_signals > 0: x / total_prob raises
divides_by_zero(t) == t.total > 0 /\ t.bullish + t.bearish + t.neutral = 0

\* the guard without its data check
calculate_probabilities_unguarded(self) ==
    IF self.indicators.empty
    THEN RetNone("calculate_probabilities")
    ELSE RetValue("calculate_probabilities", probabilities_of(signal_tally(self)))

calculate_probabilities(self) ==
    IF no_data(self) \/ self.indicators.empty
    THEN RetNone("calculate_probabilities")
    ELSE
      LET t == signal_tally(self)
      IN IF divides_by_zero(t)
         THEN RetRaise("calculate_probabilities", "ZeroDivisionError")
         ELSE RetValue("calculate_probabilities", probabilities_of(t))


\* ------------------------------------------------- calculate_price_targets
\* one target: the level's label, round(price, 2) in hundredths and the signed
\* distance round(((price - current_price) / current_price) * 100, 2) in
\* hundredths of a percent; price and current in 1/PScale units
target(kind, key, price, current) ==
    [level |-> [kind |-> kind, key |-> key],
     price |-> RoundDiv(100 * price, PScale),
     distance |-> RoundDiv(10000 * (price - current), current)]

\* `else`: whatever is not above the price is a bearish target
is_not_above(price, current) == price <= current

\* `price > current_price` / `price < current_price`
is_above(price, current) == price > current

is_below(price, current) == price < current

\* the targets of a list of [key, price] levels on one side, in list order
RECURSIVE targets_above(_, _, _)
targets_above(kind, levels, current) ==
    IF levels = <<>> THEN <<>>
    ELSE LET rest == targets_above(kind, SubSeq(levels, 1, Len(levels) - 1), current)
             x == levels[Len(levels)]
         IN IF x.usable /\ is_above(x.price, current)
            THEN Append(rest, target(kind, x.key, x.price, current)) ELSE rest

RECURSIVE targets_below(_, _, _)
targets_below(kind, levels, current) ==
    IF levels = <<>> THEN <<>>
    ELSE LET rest == targets_below(kind, SubSeq(levels, 1, Len(levels) - 1), current)
             x == levels[Len(levels)]
         IN IF x.usable /\ is_below(x.price, current)
            THEN Append(rest, target(kind, x.key, x.price, current)) ELSE rest

\* the levels of each source as [key, price, usable]
fib_levels(dict) ==
    [k \in 1..Len(dict) |-> [key |-> dict[k].level, price |-> dict[k].price, usable |-> TRUE]]

\* `r_level and ...` / `s_level and ...`: a pivot level of exactly 0 is falsy
pivot_levels(three) ==
    [k \in 1..3 |-> [key |-> k, price |-> three[k], usable |-> three[k] # 0]]

key_levels(prices) ==
    [k \in 1..Len(prices) |-> [key |-> k, price |-> PScale * prices[k], usable |-> TRUE]]

\* targets['bullish'] before sorting, in the order of the appends
bullish_candidates(self) ==
    LET current == PScale * current_price(self)
        fib == self.fibonacci_levels
        ind == self.indicators
        sr == self.support_resistance
    IN (IF fib.empty THEN <<>>
        ELSE targets_above("Fib Retracement", fib_levels(fib.retracement), current)
             \o targets_above("Fib Extension", fib_levels(fib.extension), current))
       \o (IF ind.empty THEN <<>>
           ELSE targets_above("Resistance R", pivot_levels(ind.Pivots.r), current))
       \o (IF sr.empty THEN <<>>
           ELSE targets_above("Key Resistance", key_levels(sr.resistance), current))

\* targets['bearish'] before sorting
bearish_candidates(self) ==
    LET current == PScale * current_price(self)
        fib == self.fibonacci_levels
        ind == self.indicators
        sr == self.support_resistance
    IN (IF fib.empty THEN <<>>
        ELSE targets_below("Fib Retracement", fib_levels(fib.retracement), current))
       \o (IF ind.empty THEN <<>>
           ELSE targets_below("Support S", pivot_levels(ind.Pivots.s), current))
       \o (IF sr.empty THEN <<>>
           ELSE targets_below("Key Support", key_levels(sr.support), current))

\* sorted(targets, key=lambda x: x['distance'])
sort_by_distance(ts) ==
    LET ps == SortPairs([i \in 1..Len(ts) |-> <<ts[i].distance, ts[i]>>])
    IN [i \in 1..Len(ts) |-> ps[i][2]]

\* sorted(targets, key=lambda x: abs(x['distance']))
sort_by_abs_distance(ts) ==
    LET ps == SortPairs([i \in 1..Len(ts) |-> <<Abs(ts[i].distance), ts[i]>>])
    IN [i \in 1..Len(ts) |-> ps[i][2]]

\* the [:5] of both lists
nearest(ts) == Take(ts, 5)

\* a variant that works out the Fibonacci levels itself
calculate_price_targets_computing(self) ==
    IF no_data(self) THEN RetNone("calculate_price_targets")
    ELSE LET filled == calculate_fibonacci_levels(self).self
         IN RetValue("calculate_price_targets",
                     [bullish |-> nearest(sort_by_distance(bullish_candidates(filled))),
                      bearish |-> nearest(sort_by_abs_distance(bearish_candidates(filled)))])

calculate_price_targets(self) ==
    IF no_data(self) THEN RetNone("calculate_price_targets")
    ELSE RetValue("calculate_price_targets",
                  [bullish |-> nearest(sort_by_distance(bullish_candidates(self))),
                   bearish |-> nearest(sort_by_abs_distance(bearish_candidates(self)))])


\* ---------------------------------------------------- get_market_sentiment
\* the bias as a percentage (* 100) instead of * 20
add_signal_bias_percent(strength, p) ==
    Frac(strength.n * p.total_signals
             + 100 * (p.bullish_signals - p.bearish_signals) * strength.d,
         strength.d * p.total_signals)

\* signal_bias = (bullish_signals - bearish_signals) / total_signals * 20,
\* added to the trend strength n / d
add_signal_bias(strength, p) ==
    Frac(strength.n * p.total_signals
             + 20 * (p.bullish_signals - p.bearish_signals) * strength.d,
         strength.d * p.total_signals)

\* neutral_signals > total_signals * 0.6 and abs(trend_strength) < 15
neutral_override(strength, p) ==
    /\ 10 * p.neutral_signals > 6 * p.total_signals
    /\ FracAbsLt(strength, 15)

\* the cut-offs with > instead of >=
classify_strict(strength) ==
    IF strength.n > 25 * strength.d THEN "Sehr Bullisch"
    ELSE IF strength.n > 10 * strength.d THEN "Bullisch"
    ELSE IF strength.n > -10 * strength.d THEN "Neutral"
    ELSE IF strength.n > -25 * strength.d THEN "Bearisch"
    ELSE "Sehr Bearisch"

classify(strength) ==
    IF FracGe(strength, 25) THEN "Sehr Bullisch"
    ELSE IF FracGe(strength, 10) THEN "Bullisch"
    ELSE IF FracGe(strength, -10) THEN "Neutral"
    ELSE IF FracGe(strength, -25) THEN "Bearisch"
    ELSE "Sehr Bearisch"

main_reason(sentiment) ==
    CASE sentiment = "Sehr Bullisch" -> "Starke Aufwaertssignale"
      [] sentiment = "Bullisch" -> "Positive Tendenz"
      [] sentiment = "Neutral" -> "Ausgeglichener Markt"
      [] sentiment = "Bearisch" -> "Negative Tendenz"
      [] OTHER -> "Starke Abwaertssignale"

\* the trend strength after the `if probabilities:` block
adjusted_strength(strength, p) ==
    IF p.total_signals > 0 THEN add_signal_bias(strength, p) ELSE strength

\* the override decided on the trend strength before the bias is added
get_market_sentiment_override_first(self) ==
    LET trend == calculate_trend_strength(self)
        probabilities == calculate_probabilities(self)
    IN IF probabilities.kind = "raise"
       THEN RetRaise("get_market_sentiment", probabilities.value)
       ELSE IF probabilities.kind = "None"
       THEN RetRaise("get_market_sentiment", "UnboundLocalError")
       ELSE
         LET p == probabilities.value
             trend_strength == adjusted_strength(trend.final_score, p)
             signal_info == IF p.total_signals > 0 THEN <<"Signale">> ELSE <<>>
             override == neutral_override(trend.final_score, p)
             sentiment == IF override THEN "Neutral" ELSE classify(trend_strength)
             reason == IF override THEN "Hohe Neutralitaet, Konsolidierung"
                       ELSE main_reason(sentiment)
         IN RetValue("get_market_sentiment",
                     [sentiment |-> sentiment,
                      trend_strength |-> trend_strength,
                      full_reasoning |-> <<reason>> \o trend.reasoning \o signal_info])

get_market_sentiment(self) ==
    LET trend == calculate_trend_strength(self)
        probabilities == calculate_probabilities(self)
    IN IF probabilities.kind = "raise"
       THEN RetRaise("get_market_sentiment", probabilities.value)
       ELSE IF probabilities.kind = "None"
       \* neutral_signals and total_signals were never assigned
       THEN RetRaise("get_market_sentiment", "UnboundLocalError")
       ELSE
         LET p == probabilities.value
             trend_strength == adjusted_strength(trend.final_score, p)
             signal_info == IF p.total_signals > 0 THEN <<"Signale">> ELSE <<>>
             override == neutral_override(trend_strength, p)
             sentiment == IF override THEN "Neutral" ELSE classify(trend_strength)
             reason == IF override THEN "Hohe Neutralitaet, Konsolidierung"
                       ELSE main_reason(sentiment)
         IN RetValue("get_market_sentiment",
                     [sentiment |-> sentiment,
                      trend_strength |-> trend_strength,
                      full_reasoning |-> <<reason>> \o trend.reasoning \o signal_info])


\* ==================================================== candlestick patterns
\* CandlestickPatterns of candlestick_patterns.py.  The detector keeps the
\* rows of the frame it was built on and the list of patterns found; a row
\* index idx counts from 0 as in the code (.iloc[idx]), the date of a row is
\* its position.  Prices are integers, so a comparison with a decimal factor
\* is made on both sides multiplied out (x < y * 0.3 is 10 * x < 3 * y).
NoDetector == [isNone |-> TRUE, data |-> <<>>, patterns |-> <<>>]

\* CandlestickPatterns.__init__
CandlestickPatterns(rows) == [isNone |-> FALSE, data |-> rows, patterns |-> <<>>]

iloc(self, idx) == self.data[idx + 1]

calculate_body_height(self, idx) == Abs(iloc(self, idx).Close - iloc(self, idx).Open)

max2(a, b) == IF a > b THEN a ELSE b
min2(a, b) == IF a < b THEN a ELSE b

calculate_upper_shadow(self, idx) ==
    iloc(self, idx).High - max2(iloc(self, idx).Close, iloc(self, idx).Open)

calculate_lower_shadow(self, idx) ==
    min2(iloc(self, idx).Close, iloc(self, idx).Open) - iloc(self, idx).Low

is_bullish_candle(self, idx) == iloc(self, idx).Close > iloc(self, idx).Open

is_bearish_candle(self, idx) == iloc(self, idx).Close < iloc(self, idx).Open

high_low(self, idx) == iloc(self, idx).High - iloc(self, idx).Low

lookback == 5

\* the trend over the three rows before idx
get_trend_three_rows(self, idx) ==
    IF idx < 3 THEN "unknown"
    ELSE LET start_price == iloc(self, idx - 3).Close
             end_price == iloc(self, idx - 1).Close
         IN IF 100 * end_price > 102 * start_price THEN "uptrend"
            ELSE IF 100 * end_price < 98 * start_price THEN "downtrend"
            ELSE "sideways"

get_trend(self, idx) ==
    IF idx < lookback THEN "unknown"
    ELSE LET start_price == iloc(self, idx - lookback).Close
             end_price == iloc(self, idx - 1).Close
         IN IF 100 * end_price > 102 * start_price THEN "uptrend"
            ELSE IF 100 * end_price < 98 * start_price THEN "downtrend"
            ELSE "sideways"

\* the record _add_pattern appends
add_pattern(self, idx, name, signal, reliability, description) ==
    [date |-> idx,
     pattern |-> name,
     signal |-> signal,
     reliability |-> reliability,
     description |-> description,
     price |-> iloc(self, idx).Close,
     index |-> idx]

\* the elements of a set of row indices in ascending order
RECURSIVE Ascending(_)
Ascending(S) ==
    IF S = {} THEN <<>>
    ELSE LET m == CHOOSE x \in S : \A y \in S : x <= y
         IN <<m>> \o Ascending(S \ {m})

\* `for i in range(first, len(self.data))`: the patterns a detector appends,
\* At(i) being the patterns (none or one) it appends at row i
Detect(self, first, At(_)) ==
    LET hits == Ascending({i \in first..(Len(self.data) - 1) : Len(At(i)) > 0})
    IN [k \in 1..Len(hits) |-> At(hits[k])[1]]

\* ------------------------------------------------- single candle patterns
\* a Doji also for a body of exactly a tenth of the range
doji_at_inclusive(self, i) ==
    LET body == calculate_body_height(self, i)
        trend == get_trend(self, i)
        signal == IF trend = "uptrend" THEN "Bearish Reversal"
                  ELSE IF trend = "downtrend" THEN "Bullish Reversal"
                  ELSE "Indecision"
    IN IF high_low(self, i) > 0 /\ 10 * body <= high_low(self, i)
       THEN <<add_pattern(self, i, "Doji", signal, "Medium",
                          "Unentschlossenheit im Markt, mögliche Trendwende")>>
       ELSE <<>>

doji_at(self, i) ==
    LET body == calculate_body_height(self, i)
        trend == get_trend(self, i)
        signal == IF trend = "uptrend" THEN "Bearish Reversal"
                  ELSE IF trend = "downtrend" THEN "Bullish Reversal"
                  ELSE "Indecision"
    IN IF high_low(self, i) > 0 /\ 10 * body < high_low(self, i)
       THEN <<add_pattern(self, i, "Doji", signal, "Medium",
                          "Unentschlossenheit im Markt, mögliche Trendwende")>>
       ELSE <<>>

detect_doji(self) == Detect(self, 0, LAMBDA i : doji_at(self, i))

\* long lower shadow, short upper shadow
lower_shadow_shape(self, i) ==
    /\ calculate_lower_shadow(self, i) > calculate_body_height(self, i) * 2
    /\ 10 * calculate_upper_shadow(self, i) < 3 * calculate_body_height(self, i)

\* long upper shadow, short lower shadow
upper_shadow_shape(self, i) ==
    /\ calculate_upper_shadow(self, i) > calculate_body_height(self, i) * 2
    /\ 10 * calculate_lower_shadow(self, i) < 3 * calculate_body_height(self, i)

hammer_at(self, i) ==
    IF lower_shadow_shape(self, i) /\ get_trend(self, i) = "downtrend"
    THEN <<add_pattern(self, i, "Hammer", "Bullish Reversal", "High",
                       "Starkes bullisches Umkehrsignal nach Abwärtstrend")>>
    ELSE <<>>

detect_hammer(self) == Detect(self, 1, LAMBDA i : hammer_at(self, i))

hanging_man_at(self, i) ==
    IF lower_shadow_shape(self, i) /\ get_trend(self, i) = "uptrend"
    THEN <<add_pattern(self, i, "Hanging Man", "Bearish Reversal", "Medium",
                       "Mögliches bearisches Umkehrsignal nach Aufwärtstrend")>>
    ELSE <<>>

detect_hanging_man(self) == Detect(self, 1, LAMBDA i : hanging_man_at(self, i))

shooting_star_at(self, i) ==
    IF upper_shadow_shape(self, i) /\ get_trend(self, i) = "uptrend"
    THEN <<add_pattern(self, i, "Shooting Star", "Bearish Reversal", "High",
                       "Starkes bearisches Umkehrsignal nach Aufwärtstrend")>>
    ELSE <<>>

detect_shooting_star(self) == Detect(self, 1, LAMBDA i : shooting_star_at(self, i))

inverted_hammer_at(self, i) ==
    IF upper_shadow_shape(self, i) /\ get_trend(self, i) = "downtrend"
    THEN <<add_pattern(self, i, "Inverted Hammer", "Bullish Reversal", "Medium",
                       "Mögliches bullisches Umkehrsignal nach Abwärtstrend")>>
    ELSE <<>>

detect_inverted_hammer(self) == Detect(self, 1, LAMBDA i : inverted_hammer_at(self, i))

spinning_top_at(self, i) ==
    LET body == calculate_body_height(self, i)
    IN IF /\ high_low(self, i) > 0
          /\ 10 * body < 3 * high_low(self, i)
          /\ calculate_upper_shadow(self, i) > body
          /\ calculate_lower_shadow(self, i) > body
       THEN <<add_pattern(self, i, "Spinning Top", "Neutral", "Low",
                          "Unentschlossenheit, mögliche Konsolidierung")>>
       ELSE <<>>

detect_spinning_top(self) == Detect(self, 0, LAMBDA i : spinning_top_at(self, i))

marubozu_at(self, i) ==
    IF high_low(self, i) > 0 /\ 100 * calculate_body_height(self, i) > 95 * high_low(self, i)
    THEN IF is_bullish_candle(self, i)
         THEN <<add_pattern(self, i, "Bullish Marubozu", "Strong Bullish", "High",
                            "Sehr starkes bullisches Signal, Käufer kontrollieren")>>
         ELSE <<add_pattern(self, i, "Bearish Marubozu", "Strong Bearish", "High",
                            "Sehr starkes bearisches Signal, Verkäufer kontrollieren")>>
    ELSE <<>>

detect_marubozu(self) == Detect(self, 0, LAMBDA i : marubozu_at(self, i))

long_legged_doji_at(self, i) ==
    LET body == calculate_body_height(self, i)
    IN IF /\ high_low(self, i) > 0
          /\ 100 * body < 5 * high_low(self, i)
          /\ calculate_upper_shadow(self, i) > body * 5
          /\ calculate_lower_shadow(self, i) > body * 5
       THEN <<add_pattern(self, i, "Long-Legged Doji", "High Indecision", "Medium",
                          "Extreme Unentschlossenheit, wichtiger Wendepunkt möglich")>>
       ELSE <<>>

detect_long_legged_doji(self) == Detect(self, 0, LAMBDA i : long_legged_doji_at(self, i))

dragonfly_doji_at(self, i) ==
    IF /\ high_low(self, i) > 0
       /\ 100 * calculate_body_height(self, i) < 5 * high_low(self, i)
       /\ 10 * calculate_lower_shadow(self, i) > 7 * high_low(self, i)
       /\ 10 * calculate_upper_shadow(self, i) < high_low(self, i)
    THEN IF get_trend(self, i) = "downtrend"
         THEN <<add_pattern(self, i, "Dragonfly Doji", "Bullish Reversal", "High",
                            "Starkes bullisches Umkehrsignal am Boden")>>
         ELSE <<add_pattern(self, i, "Dragonfly Doji", "Support Found", "Medium",
                            "Unterstützung gefunden")>>
    ELSE <<>>

detect_dragonfly_doji(self) == Detect(self, 0, LAMBDA i : dragonfly_doji_at(self, i))

gravestone_doji_at(self, i) ==
    IF /\ high_low(self, i) > 0
       /\ 100 * calculate_body_height(self, i) < 5 * high_low(self, i)
       /\ 10 * calculate_upper_shadow(self, i) > 7 * high_low(self, i)
       /\ 10 * calculate_lower_shadow(self, i) < high_low(self, i)
    THEN IF get_trend(self, i) = "uptrend"
         THEN <<add_pattern(self, i, "Gravestone Doji", "Bearish Reversal", "High",
                            "Starkes bearisches Umkehrsignal am Top")>>
         ELSE <<add_pattern(self, i, "Gravestone Doji", "Resistance Found", "Medium",
                            "Widerstand gefunden")>>
    ELSE <<>>

detect_gravestone_doji(self) == Detect(self, 0, LAMBDA i : gravestone_doji_at(self, i))

\* ---------------------------------------------------- two candle patterns
engulfing_at(self, i) ==
    LET prev == iloc(self, i - 1)
        curr == iloc(self, i)
    IN IF /\ is_bearish_candle(self, i - 1)
          /\ is_bullish_candle(self, i)
          /\ curr.Open < prev.Close
          /\ curr.Close > prev.Open
          /\ get_trend(self, i) = "downtrend"
       THEN <<add_pattern(self, i, "Bullish Engulfing", "Bullish Reversal", "High",
                          "Starkes bullisches Umkehrmuster")>>
       ELSE IF /\ is_bullish_candle(self, i - 1)
               /\ is_bearish_candle(self, i)
               /\ curr.Open > prev.Close
               /\ curr.Close < prev.Open
               /\ get_trend(self, i) = "uptrend"
       THEN <<add_pattern(self, i, "Bearish Engulfing", "Bearish Reversal", "High",
                          "Starkes bearisches Umkehrmuster")>>
       ELSE <<>>

detect_engulfing(self) == Detect(self, 1, LAMBDA i : engulfing_at(self, i))

harami_at(self, i) ==
    LET prev == iloc(self, i - 1)
        curr == iloc(self, i)
    IN IF /\ is_bearish_candle(self, i - 1)
          /\ is_bullish_candle(self, i)
          /\ curr.Open > prev.Close
          /\ curr.Close < prev.Open
          /\ get_trend(self, i) = "downtrend"
       THEN <<add_pattern(self, i, "Bullish Harami", "Bullish Reversal", "Medium",
                          "Mögliche bullische Umkehr")>>
       ELSE IF /\ is_bullish_candle(self, i - 1)
               /\ is_bearish_candle(self, i)
               /\ curr.Open < prev.Close
               /\ curr.Close > prev.Open
               /\ get_trend(self, i) = "uptrend"
       THEN <<add_pattern(self, i, "Bearish Harami", "Bearish Reversal", "Medium",
                          "Mögliche bearische Umkehr")>>
       ELSE <<>>

detect_harami(self) == Detect(self, 1, LAMBDA i : harami_at(self, i))

piercing_line_at(self, i) ==
    LET prev == iloc(self, i - 1)
        curr == iloc(self, i)
    IN IF /\ is_bearish_candle(self, i - 1)
          /\ is_bullish_candle(self, i)
          /\ curr.Open < prev.Low
          /\ 2 * curr.Close > prev.Open + prev.Close
          /\ curr.Close < prev.Open
          /\ get_trend(self, i) = "downtrend"
       THEN <<add_pattern(self, i, "Piercing Line", "Bullish Reversal", "High",
                          "Starkes bullisches Umkehrsignal")>>
       ELSE <<>>

detect_piercing_line(self) == Detect(self, 1, LAMBDA i : piercing_line_at(self, i))

dark_cloud_cover_at(self, i) ==
    LET prev == iloc(self, i - 1)
        curr == iloc(self, i)
    IN IF /\ is_bullish_candle(self, i - 1)
          /\ is_bearish_candle(self, i)
          /\ curr.Open > prev.High
          /\ 2 * curr.Close < prev.Open + prev.Close
          /\ curr.Close > prev.Open
          /\ get_trend(self, i) = "uptrend"
       THEN <<add_pattern(self, i, "Dark Cloud Cover", "Bearish Reversal", "High",
                          "Starkes bearisches Umkehrsignal")>>
       ELSE <<>>

detect_dark_cloud_cover(self) == Detect(self, 1, LAMBDA i : dark_cloud_cover_at(self, i))

tweezer_at(self, i) ==
    LET prev == iloc(self, i - 1)
        curr == iloc(self, i)
    IN IF /\ 1000 * Abs(curr.High - prev.High) < curr.High
          /\ get_trend(self, i) = "uptrend"
       THEN <<add_pattern(self, i, "Tweezer Top", "Bearish Reversal", "Medium",
                          "Doppelter Widerstand, mögliche Umkehr")>>
       ELSE IF /\ 1000 * Abs(curr.Low - prev.Low) < curr.Low
               /\ get_trend(self, i) = "downtrend"
       THEN <<add_pattern(self, i, "Tweezer Bottom", "Bullish Reversal", "Medium",
                          "Doppelte Unterstützung, mögliche Umkehr")>>
       ELSE <<>>

detect_tweezer_tops_bottoms(self) == Detect(self, 1, LAMBDA i : tweezer_at(self, i))

\* -------------------------------------------------- three candle patterns
morning_star_at(self, i) ==
    LET first == iloc(self, i - 2)
    IN IF /\ is_bearish_candle(self, i - 2)
          /\ 10 * calculate_body_height(self, i - 1) < 3 * calculate_body_height(self, i - 2)
          /\ is_bullish_candle(self, i)
          /\ 2 * iloc(self, i).Close > first.Open + first.Close
          /\ get_trend(self, i - 2) = "downtrend"
       THEN <<add_pattern(self, i, "Morning Star", "Bullish Reversal", "Very High",
                          "Sehr starkes bullisches Umkehrmuster")>>
       ELSE <<>>

detect_morning_star(self) == Detect(self, 2, LAMBDA i : morning_star_at(self, i))

evening_star_at(self, i) ==
    LET first == iloc(self, i - 2)
    IN IF /\ is_bullish_candle(self, i - 2)
          /\ 10 * calculate_body_height(self, i - 1) < 3 * calculate_body_height(self, i - 2)
          /\ is_bearish_candle(self, i)
          /\ 2 * iloc(self, i).Close < first.Open + first.Close
          /\ get_trend(self, i - 2) = "uptrend"
       THEN <<add_pattern(self, i, "Evening Star", "Bearish Reversal", "Very High",
                          "Sehr starkes bearisches Umkehrmuster")>>
       ELSE <<>>

detect_evening_star(self) == Detect(self, 2, LAMBDA i : evening_star_at(self, i))

\* three rising candles that each open inside the body of the one before
three_white_soldiers_at_inside_body(self, i) ==
    LET a == iloc(self, i - 2)
        b == iloc(self, i - 1)
        c == iloc(self, i)
    IN IF /\ is_bullish_candle(self, i - 2)
          /\ is_bullish_candle(self, i - 1)
          /\ is_bullish_candle(self, i)
          /\ b.Close > a.Close
          /\ c.Close > b.Close
          /\ b.Open > a.Open /\ b.Open < a.Close
          /\ c.Open > b.Open /\ c.Open < b.Close
       THEN <<add_pattern(self, i, "Three White Soldiers", "Strong Bullish", "Very High",
                          "Sehr starker Aufwärtstrend")>>
       ELSE <<>>

three_white_soldiers_at(self, i) ==
    LET a == iloc(self, i - 2)
        b == iloc(self, i - 1)
        c == iloc(self, i)
    IN IF /\ is_bullish_candle(self, i - 2)
          /\ is_bullish_candle(self, i - 1)
          /\ is_bullish_candle(self, i)
          /\ b.Close > a.Close
          /\ c.Close > b.Close
          /\ b.Open > a.Open
          /\ c.Open > b.Open
       THEN <<add_pattern(self, i, "Three White Soldiers", "Strong Bullish", "Very High",
                          "Sehr starker Aufwärtstrend")>>
       ELSE <<>>

detect_three_white_soldiers(self) ==
    Detect(self, 2, LAMBDA i : three_white_soldiers_at(self, i))

three_black_crows_at(self, i) ==
    LET a == iloc(self, i - 2)
        b == iloc(self, i - 1)
        c == iloc(self, i)
    IN IF /\ is_bearish_candle(self, i - 2)
          /\ is_bearish_candle(self, i - 1)
          /\ is_bearish_candle(self, i)
          /\ b.Close < a.Close
          /\ c.Close < b.Close
          /\ b.Open < a.Open
          /\ c.Open < b.Open
       THEN <<add_pattern(self, i, "Three Black Crows", "Strong Bearish", "Very High",
                          "Sehr starker Abwärtstrend")>>
       ELSE <<>>

detect_three_black_crows(self) ==
    Detect(self, 2, LAMBDA i : three_black_crows_at(self, i))

three_inside_at(self, i) ==
    LET a == iloc(self, i - 2)
        b == iloc(self, i - 1)
        c == iloc(self, i)
    IN IF /\ is_bearish_candle(self, i - 2)
          /\ is_bullish_candle(self, i - 1)
          /\ b.Close < a.Open
          /\ b.Open > a.Close
          /\ is_bullish_candle(self, i)
          /\ c.Close > b.Close
       THEN <<add_pattern(self, i, "Three Inside Up", "Bullish Reversal", "High",
                          "Bestätigte bullische Umkehr")>>
       ELSE IF /\ is_bullish_candle(self, i - 2)
               /\ is_bearish_candle(self, i - 1)
               /\ b.Close > a.Open
               /\ b.Open < a.Close
               /\ is_bearish_candle(self, i)
               /\ c.Close < b.Close
       THEN <<add_pattern(self, i, "Three Inside Down", "Bearish Reversal", "High",
                          "Bestätigte bearische Umkehr")>>
       ELSE <<>>

detect_three_inside_up_down(self) == Detect(self, 2, LAMBDA i : three_inside_at(self, i))

three_outside_at(self, i) ==
    LET a == iloc(self, i - 2)
        b == iloc(self, i - 1)
        c == iloc(self, i)
    IN IF /\ is_bearish_candle(self, i - 2)
          /\ is_bullish_candle(self, i - 1)
          /\ b.Open < a.Close
          /\ b.Close > a.Open
          /\ is_bullish_candle(self, i)
          /\ c.Close > b.Close
       THEN <<add_pattern(self, i, "Three Outside Up", "Bullish Reversal", "High",
                          "Starke bullische Umkehr mit Engulfing")>>
       ELSE IF /\ is_bullish_candle(self, i - 2)
               /\ is_bearish_candle(self, i - 1)
               /\ b.Open > a.Close
               /\ b.Close < a.Open
               /\ is_bearish_candle(self, i)
               /\ c.Close < b.Close
       THEN <<add_pattern(self, i, "Three Outside Down", "Bearish Reversal", "High",
                          "Starke bearische Umkehr mit Engulfing")>>
       ELSE <<>>

detect_three_outside_up_down(self) == Detect(self, 2, LAMBDA i : three_outside_at(self, i))

\* --------------------------------------------------- multi candle patterns
\* the first candle's body is larger than the three after it, whose closes
\* stay strictly inside the first candle's range
three_methods_shape(self, i) ==
    /\ \A j \in (i - 3)..(i - 1) :
           calculate_body_height(self, i - 4) > calculate_body_height(self, j)
    /\ \A j \in (i - 3)..(i - 1) :
           /\ iloc(self, j).Close < iloc(self, i - 4).High
           /\ iloc(self, j).Close > iloc(self, i - 4).Low

three_methods_at(self, i) ==
    IF /\ is_bullish_candle(self, i - 4)
       /\ three_methods_shape(self, i)
       /\ is_bullish_candle(self, i)
       /\ iloc(self, i).Close > iloc(self, i - 4).Close
    THEN <<add_pattern(self, i, "Rising Three Methods", "Bullish Continuation", "High",
                       "Bullischer Trend setzt sich fort")>>
    ELSE IF /\ is_bearish_candle(self, i - 4)
            /\ three_methods_shape(self, i)
            /\ is_bearish_candle(self, i)
            /\ iloc(self, i).Close < iloc(self, i - 4).Close
    THEN <<add_pattern(self, i, "Falling Three Methods", "Bearish Continuation", "High",
                       "Bearischer Trend setzt sich fort")>>
    ELSE <<>>

detect_rising_falling_three_methods(self) ==
    Detect(self, 4, LAMBDA i : three_methods_at(self, i))

\* ------------------------------------------------------ detect_all_patterns
\* detect_all_patterns without the reset of self.patterns
detect_all_patterns_accumulating(self) ==
    LET found == self.patterns
            \o detect_doji(self) \o detect_hammer(self) \o detect_hanging_man(self)
            \o detect_shooting_star(self) \o detect_inverted_hammer(self)
            \o detect_spinning_top(self) \o detect_marubozu(self)
            \o detect_long_legged_doji(self) \o detect_dragonfly_doji(self)
            \o detect_gravestone_doji(self)
            \o detect_engulfing(self) \o detect_harami(self)
            \o detect_piercing_line(self) \o detect_dark_cloud_cover(self)
            \o detect_tweezer_tops_bottoms(self)
            \o detect_morning_star(self) \o detect_evening_star(self)
            \o detect_three_white_soldiers(self) \o detect_three_black_crows(self)
            \o detect_three_inside_up_down(self) \o detect_three_outside_up_down(self)
            \o detect_rising_falling_three_methods(self)
    IN Result([self EXCEPT !.patterns = found],
              RetValue("detect_all_patterns", found))

\* self.patterns = [] and then the 22 detectors in the order of the code,
\* each appending what it finds
detect_all_patterns(self) ==
    LET found ==
            detect_doji(self) \o detect_hammer(self) \o detect_hanging_man(self)
            \o detect_shooting_star(self) \o detect_inverted_hammer(self)
            \o detect_spinning_top(self) \o detect_marubozu(self)
            \o detect_long_legged_doji(self) \o detect_dragonfly_doji(self)
            \o detect_gravestone_doji(self)
            \o detect_engulfing(self) \o detect_harami(self)
            \o detect_piercing_line(self) \o detect_dark_cloud_cover(self)
            \o detect_tweezer_tops_bottoms(self)
            \o detect_morning_star(self) \o detect_evening_star(self)
            \o detect_three_white_soldiers(self) \o detect_three_black_crows(self)
            \o detect_three_inside_up_down(self) \o detect_three_outside_up_down(self)
            \o detect_rising_falling_three_methods(self)
    IN Result([self EXCEPT !.patterns = found],
              RetValue("detect_all_patterns", found))

\* `word in signal` for the signals the detectors emit
contains(signal, word) ==
    CASE word = "Bullish" ->
             signal \in {"Bullish Reversal", "Strong Bullish", "Bullish Continuation"}
      [] word = "Bearish" ->
             signal \in {"Bearish Reversal", "Strong Bearish", "Bearish Continuation"}
      [] word = "Neutral" -> signal = "Neutral"
      [] word = "Continuation" ->
             signal \in {"Bullish Continuation", "Bearish Continuation"}

count_where(ps, Test(_)) == Cardinality({i \in 1..Len(ps) : Test(ps[i])})

\* the dict of counts by pattern name, in order of first appearance
pattern_types(ps) ==
    LET names == unique([i \in 1..Len(ps) |-> ps[i].pattern])
    IN [k \in 1..Len(names) |->
           [pattern |-> names[k],
            count |-> count_where(ps, LAMBDA p : p.pattern = names[k])]]

EmptyStatistics ==
    [empty |-> TRUE, total_patterns |-> 0, bullish_patterns |-> 0,
     bearish_patterns |-> 0, neutral_patterns |-> 0, high_reliability |-> 0,
     recent_patterns |-> <<>>, pattern_types |-> <<>>]

get_pattern_statistics(self) ==
    IF self.patterns = <<>> THEN RetValue("get_pattern_statistics", EmptyStatistics)
    ELSE RetValue("get_pattern_statistics",
        [empty |-> FALSE,
         total_patterns |-> Len(self.patterns),
         bullish_patterns |->
             count_where(self.patterns, LAMBDA p : contains(p.signal, "Bullish")),
         bearish_patterns |->
             count_where(self.patterns, LAMBDA p : contains(p.signal, "Bearish")),
         neutral_patterns |->
             count_where(self.patterns,
                         LAMBDA p : contains(p.signal, "Neutral")
                                    \/ contains(p.signal, "Continuation")),
         high_reliability |->
             count_where(self.patterns, LAMBDA p : p.reliability \in {"High", "Very High"}),
         recent_patterns |-> LastN(self.patterns, 5),
         pattern_types |-> pattern_types(self.patterns)])

\* ------------------------------------------------ create_candlestick_chart
\* The pattern markers of create_candlestick_chart (main.py): the patterns
\* are grouped by row index, in the order of the list, and each group shows
\* the pattern that comes first after a stable sort by descending reliability.
reliability_order(reliability) ==
    CASE reliability = "Very High" -> 4
      [] reliability = "High" -> 3
      [] reliability = "Medium" -> 2
      [] reliability = "Low" -> 1
      [] OTHER -> 0

\* pattern_groups[idx], for the indices 0 <= idx < len(data_clean)
pattern_groups(patterns, n) ==
    [idx \in 0..(n - 1) |-> SelectSeq(patterns, LAMBDA p : p.index = idx)]

\* sorted(pattern_groups.keys())[-30:]
sorted_indices(groups) ==
    LastN(Ascending({idx \in DOMAIN groups : groups[idx] # <<>>}), 30)

\* the same for an ascending sort reversed afterwards: equal keys swap places
sort_position_reversed(p, s) ==
    Cardinality({k \in 1..Len(s) :
        reliability_order(s[k].reliability) > reliability_order(p.reliability)})

\* where list.sort(key, reverse=True) puts p among the already sorted s:
\* behind every element of at least its key (the sort is stable)
sort_position(p, s) ==
    Cardinality({k \in 1..Len(s) :
        reliability_order(s[k].reliability) >= reliability_order(p.reliability)})

\* patterns_at_idx.sort(key=reliability_order.get(...), reverse=True)
RECURSIVE sort_by_reliability(_)
sort_by_reliability(ps) ==
    IF ps = <<>> THEN <<>>
    ELSE LET s == sort_by_reliability(Take(ps, Len(ps) - 1))
             p == ps[Len(ps)]
             k == sort_position(p, s)
         IN SubSeq(s, 1, k) \o <<p>> \o SubSeq(s, k + 1, Len(s))

\* main_pattern = patterns_at_idx[0]
main_pattern(patterns_at_idx) == sort_by_reliability(patterns_at_idx)[1]

\* the markers drawn: one per index, with the pattern chosen for it
create_candlestick_chart(rows, patterns) ==
    LET groups == pattern_groups(patterns, Len(rows))
        shown == sorted_indices(groups)
    IN RetValue("create_candlestick_chart",
           [k \in 1..Len(shown) |->
               [index |-> shown[k], main_pattern |-> main_pattern(groups[shown[k]])]])


\* ---------------------------------------------------------- the pipeline
\* The calls of an analysis run on a loaded object, in the order of main.py:
\* indicators, Fibonacci levels, support/resistance, pattern scan with a new
\* detector on the frame, pattern statistics, probabilities, targets,
\* sentiment.  An exception ends the run.
run_results(analysis, scan, pattern_stats, probabilities, targets, sentiment) ==
    [self |-> analysis,
     pattern_detector |-> scan.self,
     ret |-> IF probabilities.kind = "raise"
             THEN RetRaise("run_pipeline", probabilities.value)
             ELSE IF sentiment.kind = "raise"
             THEN RetRaise("run_pipeline", sentiment.value)
             ELSE RetValue("run_pipeline",
                      [indicators |-> analysis.indicators,
                       fibonacci |-> analysis.fibonacci_levels,
                       support_resistance |-> analysis.support_resistance,
                       patterns |-> scan.ret.value,
                       statistics |-> pattern_stats.value,
                       probabilities |-> probabilities.value,
                       targets |-> targets.value,
                       sentiment |-> sentiment.value])]

\* pattern statistics, probabilities, targets and sentiment
run_scores(analysis, scan) ==
    run_results(analysis, scan, get_pattern_statistics(scan.self),
                calculate_probabilities(analysis),
                calculate_price_targets(analysis),
                get_market_sentiment(analysis))

\* pattern_detector = CandlestickPatterns(analysis.data) and its scan
run_patterns(analysis) ==
    run_scores(analysis, detect_all_patterns(CandlestickPatterns(analysis.data.rows)))

run_pipeline(self, computed, window, num_levels) ==
    run_patterns(
        identify_support_resistance(
            calculate_fibonacci_levels(
                calculate_all_indicators(self, computed).self).self,
            window, num_levels).self)

\* ================================================= JSON boundary (snapshot)
\* The values handed to _prepare_data_for_json (llm_client.py) and
\* _convert_to_serializable (export_utils.py).  A value is a record: kind is
\* its Python type ("npfloat" a numpy floating scalar, "float" a plain float,
\* "None", "str" any other object, "list", "dict", "ndarray" an array of
\* float64), x the number of a float ("nan", "inf", "-inf" or a finite
\* number, written as text) and items the elements of a container in order
\* (for a dict its values, the keys being the positions).
Scalar(kind, x) == [kind |-> kind, x |-> x, items |-> <<>>]
Container(kind, items) == [kind |-> kind, x |-> "", items |-> items]

\* np.isnan(x) or np.isinf(x)
is_nan_or_inf(v) == v.x \in {"nan", "inf", "-inf"}

\* pd.isna(obj) for a scalar: None and NaN are missing, an infinity is not
pd_isna(v) == v.kind = "None" \/ (v.kind \in {"float", "npfloat"} /\ v.x = "nan")

\* the elements a comprehension keeps and what it makes of each
MapKept(items, Keep(_), Each(_)) ==
    LET kept == SelectSeq(items, Keep)
    IN [i \in 1..Len(kept) |-> Each(kept[i])]

\* LLMClient._prepare_data_for_json
RECURSIVE prepare_data_for_json(_)
prepare_data_for_json(v) ==
    IF v.kind = "npfloat"
    THEN IF is_nan_or_inf(v) THEN Scalar("None", "") ELSE Scalar("float", v.x)
    ELSE IF v.kind = "ndarray"
    THEN Container("list",
             MapKept(v.items, LAMBDA e : ~is_nan_or_inf(e),
                     LAMBDA e : prepare_data_for_json(e)))
    ELSE IF v.kind \in {"dict", "list"}
    THEN Container(v.kind,
             MapKept(v.items, LAMBDA e : e.kind # "None",
                     LAMBDA e : prepare_data_for_json(e)))
    ELSE IF pd_isna(v) THEN Scalar("None", "")
    ELSE v

\* ndarray.tolist(): the elements as plain floats
tolist(v) == Container("list", [i \in 1..Len(v.items) |-> Scalar("float", v.items[i].x)])

\* ReportExporter._convert_to_serializable
RECURSIVE convert_to_serializable(_)
convert_to_serializable(v) ==
    IF v.kind \in {"dict", "list"}
    THEN Container(v.kind,
             [i \in 1..Len(v.items) |-> convert_to_serializable(v.items[i])])
    ELSE IF v.kind = "npfloat" THEN Scalar("float", v.x)
    ELSE IF v.kind = "ndarray" THEN tolist(v)
    ELSE IF pd_isna(v) THEN Scalar("None", "")
    ELSE v

\* ============================================================ state machine
\* The object: the four attributes of a TechnicalAnalysis; pattern_detector is
\* the CandlestickPatterns object built last; ret is what the last call
\* returned.
Self ==
    [data |-> data,
     indicators |-> indicators,
     fibonacci_levels |-> fibonacci_levels,
     support_resistance |-> support_resistance]

Commit(r) ==
    /\ data' = r.self.data
    /\ indicators' = r.self.indicators
    /\ fibonacci_levels' = r.self.fibonacci_levels
    /\ support_resistance' = r.self.support_resistance
    /\ ret' = r.ret
    /\ UNCHANGED pattern_detector

\* a call that only reads the object
Return(r) ==
    /\ ret' = r
    /\ UNCHANGED <<data, indicators, fibonacci_levels, support_resistance,
                   pattern_detector>>

Init ==
    /\ data = NewAnalysis.data
    /\ indicators = NewAnalysis.indicators
    /\ fibonacci_levels = NewAnalysis.fibonacci_levels
    /\ support_resistance = NewAnalysis.support_resistance
    /\ pattern_detector = NoDetector
    /\ ret = RetNone("__init__")

\* ------------------------------------------------------------------ inputs
\* Series of well-formed candles of up to MaxLen rows.  TechnicalAnalysis reads
\* Close in the last row only and Open nowhere: here Open = Close in every row
\* and Close = Low in every row but the last.
Bars == {c \in Candles : WellFormed(c) /\ c.Open = c.Close}

EarlierBars == {c \in Bars : c.Close = c.Low}

SeriesOfLen(n) ==
    {rows \in [1..n -> Bars] : \A i \in 1..(n - 1) : rows[i] \in EarlierBars}

LevelSeries == UNION {SeriesOfLen(n) : n \in 1..MaxLen}

Bar(l, c, h) == [Open |-> c, High |-> h, Low |-> l, Close |-> c]

\* the series a second fetch_data on the same object may load
RefetchSeries == {<<Bar(1, 2, 2), Bar(1, 1, 2)>>}

\* a short series and one of more than five rows, for the scoring
ScoreSeries ==
    {<<Bar(1, 2, 3)>>,
     <<Bar(1, 2, 3), Bar(1, 2, 3), Bar(1, 2, 3), Bar(1, 2, 3), Bar(1, 2, 3), Bar(1, 2, 3)>>}

\* The indicator columns the library may compute, built from a profile: the
\* EMAs are given as thousandths of the last Close, OBV as (current, five rows
\* back, 20-row mean).  An EMA (ewm, adjust=False) is never NaN, nor is OBV
\* (a running sum of the volume).
Profile(rsi, hist, k, bb, mfi, adx, ema, obv) ==
    [rsi |-> rsi, hist |-> hist, k |-> k, bb |-> bb, mfi |-> mfi,
     adx |-> adx, ema |-> ema, obv |-> obv]

Columns(p, price) ==
    [attached |-> TRUE, RSI |-> p.rsi, MACD_diff |-> p.hist, Stoch_K |-> p.k,
     BB_percent |-> p.bb, MFI |-> p.mfi,
     ADX |-> p.adx[1], ADX_pos |-> p.adx[2], ADX_neg |-> p.adx[3],
     EMA |-> [i \in 1..4 |-> Num(price * p.ema[i])],
     OBV |-> p.obv[1], OBV_5back |-> p.obv[2], OBV_avg20 |-> p.obv[3]]

RSIValues ==
    {NaN, Num(0), Num(20), Num(30), Num(40), Num(50), Num(55), Num(60), Num(65),
     Num(70), Num(80), Num(100)}
HistValues == {NaN, Num(0), Num(5), Num(-5), Num(300), Num(-300)}
StochValues == {NaN, Num(0), Num(20), Num(30), Num(50), Num(70), Num(80)}
BBValues == {NaN, Num(0), Num(10), Num(20), Num(50), Num(80), Num(90), Num(-10)}
MFIValues == {NaN, Num(0), Num(30), Num(40), Num(50), Num(60), Num(70)}
ADXValues ==
    {<<NaN, NaN, NaN>>, <<Num(0), Num(0), Num(0)>>, <<Num(15), Num(20), Num(10)>>,
     <<Num(20), Num(20), Num(10)>>, <<Num(25), Num(20), Num(10)>>,
     <<Num(30), Num(20), Num(10)>>, <<Num(30), Num(10), Num(20)>>,
     <<Num(30), Num(10), Num(10)>>, <<Num(30), Num(0), Num(10)>>,
     <<Num(30), NaN, NaN>>}
EMAValues ==
    {<<990, 990, 990, 990>>, <<1020, 1020, 1020, 1020>>, <<1000, 1000, 1000, 1000>>,
     <<990, 990, 1020, 1020>>, <<1005, 995, 1005, 995>>, <<1020, 990, 980, 1011>>}
OBVValues ==
    {<<Num(200), Num(100), Num(150)>>, <<Num(0), Num(0), Num(0)>>,
     <<Num(110), Num(100), Num(100)>>, <<Num(90), Num(100), Num(100)>>,
     <<Num(101), Num(100), Num(100)>>, <<Num(100), Num(100), Num(90)>>,
     <<Num(-110), Num(-100), Num(-100)>>, <<Num(-90), Num(-100), Num(-100)>>,
     <<Num(-101), Num(-100), Num(-100)>>, <<Num(50), Num(-100), Num(0)>>}

\* every factor bullish, every factor bearish, every value zero, every value
\* inside its warm-up window
BullProfile ==
    Profile(Num(80), Num(300), Num(80), Num(90), Num(70),
            <<Num(30), Num(20), Num(10)>>, <<990, 990, 990, 990>>,
            <<Num(110), Num(100), Num(100)>>)
BearProfile ==
    Profile(Num(20), Num(-300), Num(20), Num(10), Num(30),
            <<Num(30), Num(10), Num(20)>>, <<1020, 1020, 1020, 1020>>,
            <<Num(90), Num(100), Num(100)>>)
ZeroProfile ==
    Profile(Num(0), Num(0), Num(0), Num(0), Num(0),
            <<Num(0), Num(0), Num(0)>>, <<1000, 1000, 1000, 1000>>,
            <<Num(0), Num(0), Num(0)>>)
WarmupProfile ==
    Profile(NaN, NaN, NaN, NaN, NaN, <<NaN, NaN, NaN>>,
            <<1000, 1000, 1000, 1000>>, <<Num(100), Num(100), Num(100)>>)

\* a quiet market (eight or nine of ten signals neutral) whose trend strength
\* is just above 15 with one bearish signal, and one whose trend strength is
\* just below 15 with two bullish signals
QuietAboveProfile ==
    Profile(Num(55), Num(5), Num(20), Num(50), Num(50),
            <<Num(15), Num(20), Num(10)>>, <<1005, 995, 1005, 995>>,
            <<Num(101), Num(100), Num(100)>>)
QuietBelowProfile ==
    Profile(Num(55), Num(5), Num(50), Num(90), Num(70),
            <<Num(15), Num(20), Num(10)>>, <<1005, 995, 1005, 995>>,
            <<Num(101), Num(100), Num(100)>>)

\* a profile with one indicator set to each of its values
Slices(base) ==
    {[base EXCEPT !.rsi = v] : v \in RSIValues}
    \cup {[base EXCEPT !.hist = v] : v \in HistValues}
    \cup {[base EXCEPT !.k = v] : v \in StochValues}
    \cup {[base EXCEPT !.bb = v] : v \in BBValues}
    \cup {[base EXCEPT !.mfi = v] : v \in MFIValues}
    \cup {[base EXCEPT !.adx = v] : v \in ADXValues}
    \cup {[base EXCEPT !.ema = v] : v \in EMAValues}
    \cup {[base EXCEPT !.obv = v] : v \in OBVValues}

\* every combination of two values per indicator
CoreProfiles ==
    {Profile(rsi, hist, k, bb, mfi, adx, ema, obv) :
        rsi \in {Num(0), Num(80)},
        hist \in {Num(0), Num(300)},
        k \in {Num(0), Num(50)},
        bb \in {Num(0), Num(90)},
        mfi \in {Num(0), Num(30)},
        adx \in {<<NaN, NaN, NaN>>, <<Num(15), Num(20), Num(10)>>},
        ema \in {<<990, 990, 990, 990>>, <<1000, 1000, 1020, 1020>>},
        obv \in {<<Num(0), Num(0), Num(0)>>, <<Num(90), Num(100), Num(100)>>}}

ScoreProfiles ==
    CoreProfiles \cup Slices(BullProfile) \cup Slices(BearProfile)
    \cup Slices(ZeroProfile) \cup Slices(WarmupProfile)
    \cup {QuietAboveProfile, QuietBelowProfile}

ScoreColumns(price) == {Columns(p, price) : p \in ScoreProfiles}

\* a frame too short for any warm-up window, and a long one
LevelColumns(price) == {Columns(WarmupProfile, price), Columns(BullProfile, price)}

\* Series for the analysis run: every series of fewer than MaxLen candles of
\* six shapes (a doji with two shadows, a dragonfly, a gravestone, a bullish
\* and a bearish marubozu, a candle without range), and three series long
\* enough for a trend: a fall ending in a hammer, a rise ending in a shooting
\* star, and a flat run of dojis.
OHLC(o, h, l, c) == [Open |-> o, High |-> h, Low |-> l, Close |-> c]

PatternBars ==
    {OHLC(2, 3, 1, 2), OHLC(3, 3, 1, 3), OHLC(1, 3, 1, 1),
     OHLC(1, 3, 1, 3), OHLC(3, 3, 1, 1), OHLC(2, 2, 2, 2)}

FallingSeries ==
    <<OHLC(5, 5, 4, 4), OHLC(4, 4, 3, 3), OHLC(3, 3, 2, 2), OHLC(3, 3, 2, 2),
      OHLC(2, 2, 1, 1), OHLC(4, 5, 1, 5)>>

RisingSeries ==
    <<OHLC(1, 2, 1, 2), OHLC(2, 3, 2, 3), OHLC(3, 4, 3, 4), OHLC(3, 4, 3, 4),
      OHLC(4, 5, 4, 5), OHLC(2, 5, 1, 1)>>

FlatSeries ==
    <<OHLC(2, 3, 1, 2), OHLC(2, 3, 1, 2), OHLC(2, 3, 1, 2), OHLC(2, 3, 1, 2),
      OHLC(2, 3, 1, 2), OHLC(2, 3, 2, 2)>>

\* a decline from a doji to a doji with a long lower shadow
DragonflySeries ==
    <<OHLC(7, 8, 6, 7), OHLC(6, 6, 5, 5), OHLC(5, 5, 4, 4), OHLC(4, 4, 3, 3),
      OHLC(3, 3, 2, 2), OHLC(2, 2, 1, 2)>>

\* a long candle, three small ones inside its range, a further long candle
RisingMethodsSeries ==
    <<OHLC(1, 5, 1, 5), OHLC(4, 4, 3, 3), OHLC(3, 4, 3, 4), OHLC(4, 4, 3, 3),
      OHLC(3, 6, 3, 6)>>

FallingMethodsSeries ==
    <<OHLC(6, 6, 2, 2), OHLC(3, 4, 3, 4), OHLC(4, 4, 3, 3), OHLC(3, 4, 3, 4),
      OHLC(4, 4, 1, 1)>>

PipelineSeries ==
    UNION {[1..n -> PatternBars] : n \in 1..(MaxLen - 1)}
    \cup {FallingSeries, RisingSeries, FlatSeries,
          DragonflySeries, RisingMethodsSeries, FallingMethodsSeries}

Windows == {1, 2, 3}
NumLevels == {1, 2}

\* ----------------------------------------------------------------- actions
FetchError == Commit(fetch_data(Self, "error", <<>>))

FetchEmpty == Commit(fetch_data(Self, "ok", <<>>))

FetchData(series) == \E rows \in series : Commit(fetch_data(Self, "ok", rows))

CalculateAllIndicators(columns) ==
    IF no_data(Self)
    THEN Commit(calculate_all_indicators(Self, NoCols))
    ELSE \E computed \in
             (IF data.cols.attached THEN {data.cols} ELSE columns) :
             Commit(calculate_all_indicators(Self, computed))

CalculateFibonacciLevels == Commit(calculate_fibonacci_levels(Self))

\* ret keeps the arguments of the call
IdentifySupportResistance ==
    \E window \in Windows, num_levels \in NumLevels :
        LET r == identify_support_resistance(Self, window, num_levels)
        IN Commit([r EXCEPT !.ret.args = <<window, num_levels>>])

CalculateTrendStrength ==
    Return(RetValue("calculate_trend_strength", calculate_trend_strength(Self)))

CalculateProbabilities == Return(calculate_probabilities(Self))

CalculatePriceTargets == Return(calculate_price_targets(Self))

GetMarketSentiment == Return(get_market_sentiment(Self))

Calls ==
    \/ CalculateFibonacciLevels
    \/ IdentifySupportResistance
    \/ CalculateTrendStrength
    \/ CalculateProbabilities
    \/ CalculatePriceTargets
    \/ GetMarketSentiment

\* many series, two column sets
LevelColumnsNow == IF no_data(Self) THEN {NoCols} ELSE LevelColumns(current_price(Self))

Next ==
    \/ FetchError
    \/ FetchEmpty
    \/ FetchData(IF data.isNone THEN LevelSeries ELSE RefetchSeries)
    \/ CalculateAllIndicators(LevelColumnsNow)
    \/ Calls

Spec == Init /\ [][Next]_vars

\* the scoring calls on two series and many column sets
ScoreColumnsNow == IF no_data(Self) THEN {NoCols} ELSE ScoreColumns(current_price(Self))

NextScore ==
    \/ FetchError
    \/ FetchEmpty
    \/ FetchData(ScoreSeries)
    \/ CalculateAllIndicators(ScoreColumnsNow)
    \/ CalculateTrendStrength
    \/ CalculateProbabilities
    \/ GetMarketSentiment

SpecScore == Init /\ [][NextScore]_vars

\* the analysis run and the pattern detector
\* ret keeps the arguments of the run and whether it repeats the run before it
RunPipeline ==
    /\ ~no_data(Self)
    /\ \E computed \in (IF data.cols.attached THEN {data.cols} ELSE LevelColumnsNow),
          window \in Windows, num_levels \in NumLevels :
          \E r \in {run_pipeline(Self, computed, window, num_levels)} :
          LET again == ret.op = "run_pipeline" /\ ret.args[1] = window
                       /\ ret.args[2] = num_levels
          IN /\ data' = r.self.data
             /\ indicators' = r.self.indicators
             /\ fibonacci_levels' = r.self.fibonacci_levels
             /\ support_resistance' = r.self.support_resistance
             /\ pattern_detector' = r.pattern_detector
             /\ ret' = WithArgs(r.ret, <<window, num_levels, again>>)

\* pattern_detector = CandlestickPatterns(analysis.data)
NewCandlestickPatterns ==
    /\ ~data.isNone
    /\ pattern_detector' = CandlestickPatterns(data.rows)
    /\ ret' = RetNone("CandlestickPatterns")
    /\ UNCHANGED <<data, indicators, fibonacci_levels, support_resistance>>

\* ret keeps whether the detector already held the patterns of a scan
DetectAllPatterns ==
    /\ ~pattern_detector.isNone
    /\ LET r == detect_all_patterns(pattern_detector)
       IN /\ pattern_detector' = r.self
          /\ ret' = WithArgs(r.ret, <<pattern_detector.patterns # <<>>>>)
    /\ UNCHANGED <<data, indicators, fibonacci_levels, support_resistance>>

GetPatternStatistics ==
    /\ ~pattern_detector.isNone
    /\ Return(get_pattern_statistics(pattern_detector))

\* the chart of the run kept in the session: its rows and its patterns
CreateCandlestickChart ==
    /\ ~pattern_detector.isNone
    /\ pattern_detector.patterns # <<>>
    /\ Return(create_candlestick_chart(pattern_detector.data, pattern_detector.patterns))

NextPipeline ==
    \/ FetchData(IF data.isNone THEN PipelineSeries ELSE RefetchSeries)
    \/ RunPipeline
    \/ NewCandlestickPatterns
    \/ DetectAllPatterns
    \/ GetPatternStatistics
    \/ CreateCandlestickChart

SpecPipeline == Init /\ [][NextPipeline]_vars

\* Series for the trend before a row: five falling candles, a long bearish
\* one, a small one and a bullish one closing in the upper half of the long one
\* (and the mirror image); the same without the first row; a fall into a
\* hammer at row 3; and flat series whose Close four rows on differs from the
\* first Close by 0, 1, 2 or 3 percent.
MorningStarSeries ==
    <<OHLC(20, 20, 19, 19), OHLC(19, 19, 18, 18), OHLC(18, 18, 17, 17),
      OHLC(17, 17, 16, 16), OHLC(16, 16, 15, 15), OHLC(15, 15, 10, 10),
      OHLC(10, 10, 10, 10), OHLC(10, 14, 10, 14)>>

EveningStarSeries ==
    <<OHLC(10, 11, 10, 11), OHLC(11, 12, 11, 12), OHLC(12, 13, 12, 13),
      OHLC(13, 14, 13, 14), OHLC(14, 15, 14, 15), OHLC(15, 20, 15, 20),
      OHLC(20, 20, 20, 20), OHLC(20, 20, 16, 16)>>

EarlyHammerSeries ==
    <<OHLC(50, 50, 40, 40), OHLC(40, 40, 30, 30), OHLC(30, 30, 20, 20),
      OHLC(19, 20, 10, 20)>>

Still(c) == OHLC(c, c, c, c)

TrendEdgeSeries ==
    {<<Still(100), Still(100), Still(100), Still(100), Still(c), Still(100)>> :
        c \in {97, 98, 99, 100, 101, 102, 103}}

\* Candles by the heights of lower shadow, body and upper shadow, rising or
\* falling, standing on a low of 100: no range at all; a body of 1/10, 1/11,
\* 19/20 and 20/21 of the range; a body without shadows; shadows without a
\* body; a lower shadow of 2.1 and of 2 bodies; an upper shadow of 0.2 and of
\* 0.3 bodies.
Shaped(lower, body, upper, rising) ==
    LET bottom == 100 + lower
        top == bottom + body
    IN OHLC(IF rising THEN bottom ELSE top, top + upper, 100,
            IF rising THEN top ELSE bottom)

Shapes ==
    {<<0, 0, 0>>, <<5, 1, 4>>, <<5, 1, 5>>, <<0, 19, 1>>, <<1, 20, 0>>, <<0, 5, 0>>,
     <<0, 0, 3>>, <<3, 0, 0>>, <<21, 10, 2>>, <<20, 10, 2>>, <<21, 10, 3>>, <<2, 1, 0>>}

GeometryBars == {Shaped(t[1], t[2], t[3], rising) : t \in Shapes, rising \in BOOLEAN}

\* five candles without range falling from 200 to 160
Decline == <<Still(200), Still(190), Still(180), Still(170), Still(160)>>

GeometrySeries ==
    {<<bar>> : bar \in GeometryBars} \cup {Append(Decline, bar) : bar \in GeometryBars}

\* Ten rising candles without shadows: candle k opens steps[k][1] above the
\* open before it and closes steps[k][2] above the higher of its open and the
\* close before it.  The opens rise by 1, by 5 or by both in turn, the bodies
\* likewise, from a first open of 10 (a rise of far more than 2% in five rows)
\* and of 1000 (less than 2%).
NoWickRise(base, steps) ==
    LET open[k \in 1..Len(steps)] ==
            IF k = 1 THEN base ELSE open[k - 1] + steps[k][1]
        close[k \in 1..Len(steps)] ==
            IF k = 1 THEN base + steps[k][2]
            ELSE max2(open[k], close[k - 1]) + steps[k][2]
    IN [k \in 1..Len(steps) |-> OHLC(open[k], close[k], open[k], close[k])]

StepRules == {<<1, 1>>, <<5, 5>>, <<1, 5>>}

StepsOf(rule, k) == IF k % 2 = 1 THEN rule[1] ELSE rule[2]

NoWickSeries ==
    {NoWickRise(base, [k \in 1..10 |-> <<StepsOf(d, k), StepsOf(e, k)>>]) :
        base \in {10, 1000}, d \in StepRules, e \in StepRules}

TrendSeries ==
    {FallingSeries, RisingSeries, FlatSeries, DragonflySeries,
     MorningStarSeries, EveningStarSeries,
     Tail(MorningStarSeries), Tail(EveningStarSeries), EarlyHammerSeries}
    \cup TrendEdgeSeries \cup GeometrySeries \cup NoWickSeries

\* self._get_trend(idx) for a row of the detector's frame
GetTrend ==
    /\ ~pattern_detector.isNone
    /\ \E idx \in 0..(Len(pattern_detector.data) - 1) :
           Return(WithArgs(RetValue("_get_trend", get_trend(pattern_detector, idx)),
                           <<idx>>))

NextTrend ==
    \/ FetchData(IF data.isNone THEN TrendSeries ELSE RefetchSeries)
    \/ NewCandlestickPatterns
    \/ GetTrend
    \/ DetectAllPatterns

SpecTrend == Init /\ [][NextTrend]_vars

\* the moving-average columns of a loaded series
CalculateMovingAverages ==
    /\ ~no_data(Self)
    /\ Return(RetValue("_calculate_moving_averages", calculate_moving_averages(data.rows)))

NextColumns ==
    \/ FetchData(IF data.isNone THEN LevelSeries ELSE RefetchSeries)
    \/ CalculateMovingAverages

SpecColumns == Init /\ [][NextColumns]_vars

\* the JSON boundary: the snapshots are scalars, containers of scalars and
\* containers holding one container of at most one scalar
Numbers == {"1.5", "nan", "inf", "-inf"}

Scalars ==
    {Scalar(k, x) : k \in {"npfloat", "float"}, x \in Numbers}
    \cup {Scalar("None", ""), Scalar("str", "")}

SeqsUpTo(S, n) == UNION {[1..m -> S] : m \in 0..n}

Flat(n) ==
    {Container(k, items) : k \in {"dict", "list"}, items \in SeqsUpTo(Scalars, n)}
    \cup {Container("ndarray", items) :
              items \in SeqsUpTo({Scalar("npfloat", x) : x \in Numbers}, n)}

Snapshots ==
    Scalars \cup Flat(MaxLen - 1)
    \cup {Container(k, <<inner>>) : k \in {"dict", "list"}, inner \in Flat(1)}

\* a snapshot is at hand; ret keeps it as the argument of the calls
InitExport ==
    /\ data = NewAnalysis.data
    /\ indicators = NewAnalysis.indicators
    /\ fibonacci_levels = NewAnalysis.fibonacci_levels
    /\ support_resistance = NewAnalysis.support_resistance
    /\ pattern_detector = NoDetector
    /\ \E snapshot \in Snapshots : ret = WithArgs(RetNone("snapshot"), <<snapshot>>)

PrepareDataForJson ==
    Return(WithArgs(RetValue("_prepare_data_for_json", prepare_data_for_json(ret.args[1])),
                    ret.args))

ConvertToSerializable ==
    Return(WithArgs(RetValue("_convert_to_serializable", convert_to_serializable(ret.args[1])),
                    ret.args))

NextExport ==
    \/ PrepareDataForJson
    \/ ConvertToSerializable

SpecExport == InitExport /\ [][NextExport]_vars


\* ================================================================== claims
CalledOk(op) == ret.op = op /\ ret.kind = "value"

HasRows == ~data.isNone /\ data.rows # <<>>

LastClose == data.rows[Len(data.rows)].Close

\* C1: after identify_support_resistance every value of the returned support
\* list is strictly below the current price (the last Close) and every value of
\* the resistance list strictly above it; no price is in both lists and no
\* level equals the current price.
C1_LevelsOnTheirSide ==
    CalledOk("identify_support_resistance") =>
        /\ \A x \in Range(ret.value.support) : x < LastClose
        /\ \A x \in Range(ret.value.resistance) : x > LastClose
        /\ Range(ret.value.support) \cap Range(ret.value.resistance) = {}
        /\ LastClose \notin Range(ret.value.support) \cup Range(ret.value.resistance)
        /\ ret.value.current_price = LastClose

C1_Witness ==
    /\ CalledOk("identify_support_resistance")
    /\ ret.value.support # <<>>
    /\ ret.value.resistance # <<>>

\* the candidates of a call: the Lows (Highs) that are the minimum (maximum) of
\* their complete centered window, on the side of the current price
SupportCandidates(window) ==
    {data.rows[i].Low : i \in {j \in 1..Len(data.rows) : is_local_min(data.rows, window, j)}}
        \cap {x \in Prices : x < LastClose}

ResistanceCandidates(window) ==
    {data.rows[i].High : i \in {j \in 1..Len(data.rows) : is_local_max(data.rows, window, j)}}
        \cap {x \in Prices : x > LastClose}

Largest(S, n) == {x \in S : Cardinality({y \in S : y > x}) < n}
Smallest(S, n) == {x \in S : Cardinality({y \in S : y < x}) < n}

NoRows == data.isNone \/ data.rows = <<>>

\* C2, as claimed: whenever calculate_probabilities has a result the three
\* probabilities add up to 100.00 within 0.01, and the call never fails with
\* a division by zero.
C2_ProbabilitiesSumTo100 ==
    (ret.op = "calculate_probabilities" /\ ret.kind # "None") =>
        /\ ret.kind = "value"
        /\ Abs(ret.value.bullish_probability + ret.value.bearish_probability
               + ret.value.neutral_probability - 10000) <= 1

\* C5: with the series None or empty, calculate_all_indicators,
\* calculate_fibonacci_levels, identify_support_resistance,
\* calculate_probabilities and calculate_price_targets return None without
\* raising and leave indicators, fibonacci_levels and support_resistance as
\* they were.
NoDataCalls ==
    {"calculate_all_indicators", "calculate_fibonacci_levels",
     "identify_support_resistance", "calculate_probabilities",
     "calculate_price_targets"}

C5_NoDataReturnsNone ==
    [][(NoRows /\ ret'.op \in NoDataCalls) =>
          /\ ret'.kind = "None"
          /\ indicators' = indicators
          /\ fibonacci_levels' = fibonacci_levels
          /\ support_resistance' = support_resistance
          /\ data' = data]_vars

\* an emptied object that still holds the results of an earlier run
C5_Witness ==
    /\ ~data.isNone /\ data.rows = <<>>
    /\ ret.op = "calculate_probabilities" /\ ret.kind = "None"
    /\ ~indicators.empty /\ ~fibonacci_levels.empty /\ ~support_resistance.empty

\* C6, as claimed: with the series empty or missing, or no indicators
\* computed, get_market_sentiment does not raise and returns score 0 with the
\* Neutral label.
C6_SentimentWithoutData ==
    (ret.op = "get_market_sentiment" /\ (NoRows \/ indicators.empty)) =>
        /\ ret.kind = "value"
        /\ ret.value.sentiment = "Neutral"
        /\ ret.value.trend_strength.n = 0

\* C7, as claimed: in calculate_trend_strength an indicator whose current
\* value is missing (NaN inside its warm-up window) is skipped: its factor
\* changes neither trend_score nor total_weight and appends no reason.
\* Stated for the indicators with a warm-up window: RSI, MACD histogram, ADX
\* and Bollinger percent.
C7_MissingIndicatorSkipped ==
    (ret.op = "calculate_trend_strength" /\ ~indicators.empty) =>
        LET ind == indicators
            a1 == rsi_factor(Acc0, ind)
            a2 == macd_factor(a1, ind)
            a3 == adx_factor(a2, ind)
            a4 == ma_factor(a3, Self)
            a5 == bb_factor(a4, ind)
        IN /\ ~IsNum(ind.RSI) => a1 = Acc0
           /\ ~IsNum(ind.MACD_histogram) => a2 = a1
           /\ ~IsNum(ind.ADX_adx) => a3 = a2
           /\ ~IsNum(ind.Bollinger_percent) => a5 = a4

\* C8: the trend strength reported is in [-100, 100], both as returned by
\* calculate_trend_strength and as returned by get_market_sentiment after the
\* signal bias has been added.
InScoreRange(x) == x.d > 0 /\ -100 * x.d <= x.n /\ x.n <= 100 * x.d

C8_TrendStrengthInRange ==
    /\ CalledOk("calculate_trend_strength") => InScoreRange(ret.value.final_score)
    /\ CalledOk("get_market_sentiment") => InScoreRange(ret.value.trend_strength)

\* a sentiment whose bias pushed the score beyond what the normalization gives
C8_Witness ==
    /\ CalledOk("get_market_sentiment")
    /\ ret.value.trend_strength.n > 50 * ret.value.trend_strength.d

\* C9: in get_market_sentiment, when neutral_signals > 0.6 * total_signals and
\* |s| < 15 for the returned score s the label is Neutral; otherwise the label
\* is decided by s alone: s >= 25 Very Bullish, 10 <= s < 25 Bullish,
\* -10 <= s < 10 Neutral, -25 <= s < -10 Bearish, s < -25 Very Bearish.
LabelOf(s) ==
    CASE s.n >= 25 * s.d -> "Sehr Bullisch"
      [] s.n >= 10 * s.d /\ s.n < 25 * s.d -> "Bullisch"
      [] s.n >= -10 * s.d /\ s.n < 10 * s.d -> "Neutral"
      [] s.n >= -25 * s.d /\ s.n < -10 * s.d -> "Bearisch"
      [] s.n < -25 * s.d -> "Sehr Bearisch"

C9_LabelFromScore ==
    CalledOk("get_market_sentiment") =>
        LET s == ret.value.trend_strength
            p == calculate_probabilities(Self).value
        IN IF 10 * p.neutral_signals > 6 * p.total_signals /\ Abs(s.n) < 15 * s.d
           THEN ret.value.sentiment = "Neutral"
           ELSE ret.value.sentiment = LabelOf(s)

\* the override at work: a score of 10 or more labelled Neutral
C9_Witness ==
    /\ CalledOk("get_market_sentiment")
    /\ ret.value.trend_strength.n >= 10 * ret.value.trend_strength.d
    /\ ret.value.sentiment = "Neutral"


\* the levels stored on the object, as <<kind, key, price>> in 1/PScale units
FibRetracements ==
    IF fibonacci_levels.empty THEN {}
    ELSE {<<"Fib Retracement", l.level, l.price>> : l \in Range(fibonacci_levels.retracement)}

FibExtensions ==
    IF fibonacci_levels.empty THEN {}
    ELSE {<<"Fib Extension", l.level, l.price>> : l \in Range(fibonacci_levels.extension)}

PivotResistances ==
    IF indicators.empty THEN {}
    ELSE {<<"Resistance R", k, indicators.Pivots.r[k]>> : k \in 1..3}

PivotSupports ==
    IF indicators.empty THEN {}
    ELSE {<<"Support S", k, indicators.Pivots.s[k]>> : k \in 1..3}

KeyResistances ==
    IF support_resistance.empty THEN {}
    ELSE {<<"Key Resistance", k, PScale * support_resistance.resistance[k]>> :
             k \in 1..Len(support_resistance.resistance)}

KeySupports ==
    IF support_resistance.empty THEN {}
    ELSE {<<"Key Support", k, PScale * support_resistance.support[k]>> :
             k \in 1..Len(support_resistance.support)}

AllLevels ==
    FibRetracements \cup FibExtensions \cup PivotResistances \cup PivotSupports
    \cup KeyResistances \cup KeySupports

TargetOf(l) == target(l[1], l[2], l[3], PScale * LastClose)

Min(a, b) == IF a < b THEN a ELSE b

\* ts is candidates sorted ascending by Key and cut to the five nearest
NearestFive(ts, candidates, Key(_)) ==
    /\ Len(ts) = Min(5, Len(candidates))
    /\ Range(ts) \subseteq Range(candidates)
    /\ Cardinality(Range(ts)) = Len(ts)
    /\ \A i \in 1..Len(ts), j \in 1..Len(ts) : i < j => Key(ts[i]) <= Key(ts[j])
    /\ \A t \in Range(candidates) \ Range(ts) : \A u \in Range(ts) : Key(u) <= Key(t)

Distance(t) == t.distance

AbsDistance(t) == Abs(t.distance)

\* C10, as claimed: every Fibonacci, pivot and support/resistance level is a
\* bullish target if its price is above the current price and otherwise a
\* bearish target.
C10_EveryLevelClassified ==
    CalledOk("calculate_price_targets") =>
        /\ Len(bullish_candidates(Self))
               = Cardinality({l \in AllLevels : l[3] > PScale * LastClose})
        /\ Len(bearish_candidates(Self))
               = Cardinality({l \in AllLevels : ~(l[3] > PScale * LastClose)})

\* C10, amended: a level is a bullish target only if it is strictly above the
\* current price and a bearish target only if strictly below; a level at the
\* current price is in neither list.  Fibonacci retracements are classified
\* on both sides; extensions, pivot R1-R3 and stored resistances only as
\* bullish targets, pivot S1-S3 (unless exactly 0) and stored supports only as
\* bearish ones.  Each target carries the rounded price and the signed
\* percentage distance; the bullish list is ascending by distance, the bearish
\* one by absolute distance, each cut to the 5 nearest.
C10_TargetsBySide ==
    CalledOk("calculate_price_targets") =>
        LET cur == PScale * LastClose
            bull == bullish_candidates(Self)
            bear == bearish_candidates(Self)
        IN /\ Range(bull) =
                  {TargetOf(l) :
                      l \in {x \in FibRetracements \cup FibExtensions \cup KeyResistances
                                   \cup {y \in PivotResistances : y[3] # 0} : x[3] > cur}}
           /\ Range(bear) =
                  {TargetOf(l) :
                      l \in {x \in FibRetracements \cup KeySupports
                                   \cup {y \in PivotSupports : y[3] # 0} : x[3] < cur}}
           /\ Cardinality(Range(bull)) = Len(bull)
           /\ Cardinality(Range(bear)) = Len(bear)
           /\ \A t \in Range(bull) : t.distance >= 0
           /\ \A t \in Range(bear) : t.distance <= 0
           /\ NearestFive(ret.value.bullish, bull, Distance)
           /\ NearestFive(ret.value.bearish, bear, AbsDistance)

\* a level at the current price, a cut bullish list and a bearish target
C10_Witness ==
    /\ CalledOk("calculate_price_targets")
    /\ \E l \in AllLevels : l[3] = PScale * LastClose
    /\ Len(bullish_candidates(Self)) > 5
    /\ Len(ret.value.bullish) = 5
    /\ ret.value.bearish # <<>>

\* ---------------------------------------------------------------------- C3
RanPipeline == ret.op = "run_pipeline"

\* C3: running the pipeline (calculate_all_indicators,
\* calculate_fibonacci_levels, identify_support_resistance,
\* detect_all_patterns, calculate_probabilities, calculate_price_targets,
\* get_market_sentiment) again on the same object and the same series, with
\* the same arguments, returns the results of the run before it and leaves
\* the object (frame, indicators, levels) and the pattern list as they were.
C3_SecondRunIdentical ==
    [][(/\ RanPipeline
        /\ ret'.op = "run_pipeline"
        /\ ret'.args[1] = ret.args[1]
        /\ ret'.args[2] = ret.args[2])
       => (/\ ret'.kind = ret.kind
           /\ ret'.value = ret.value
           /\ data' = data
           /\ indicators' = indicators
           /\ fibonacci_levels' = fibonacci_levels
           /\ support_resistance' = support_resistance
           /\ pattern_detector' = pattern_detector)]_vars

\* a repeated run that found patterns, levels on both sides and targets
C3_Witness ==
    /\ RanPipeline
    /\ ret.kind = "value"
    /\ ret.args[3]
    /\ ret.value.patterns # <<>>
    /\ ret.value.support_resistance.support # <<>>
    /\ ret.value.support_resistance.resistance # <<>>
    /\ ret.value.targets.bullish # <<>>
    /\ ret.value.targets.bearish # <<>>

\* ---------------------------------------------------------------------------
\* C11  The pattern chosen for an index has the highest reliability rank of
\* the patterns detected at that index (Very High > High > Medium > Low) and,
\* among those of that rank, is the one detected first; a High pattern wins
\* over a Medium one at the same index.
Rank(p) ==
    IF p.reliability = "Very High" THEN 4
    ELSE IF p.reliability = "High" THEN 3
    ELSE IF p.reliability = "Medium" THEN 2
    ELSE IF p.reliability = "Low" THEN 1 ELSE 0

DrewChart == ret.op = "create_candlestick_chart" /\ ret.kind = "value"

\* the positions in the detected list of the patterns at index idx
PositionsAt(idx) ==
    {k \in 1..Len(pattern_detector.patterns) : pattern_detector.patterns[k].index = idx}

C11_PrimaryPattern ==
    DrewChart =>
        LET found == pattern_detector.patterns
        IN /\ \A idx \in 0..(Len(pattern_detector.data) - 1) :
                  PositionsAt(idx) # {} => \E m \in 1..Len(ret.value) : ret.value[m].index = idx
           /\ \A m \in 1..Len(ret.value) :
                  \E k \in PositionsAt(ret.value[m].index) :
                      /\ ret.value[m].main_pattern = found[k]
                      /\ \A j \in PositionsAt(ret.value[m].index) :
                             \/ Rank(found[j]) < Rank(found[k])
                             \/ Rank(found[j]) = Rank(found[k]) /\ k <= j
           /\ \A m \in 1..Len(ret.value) :
                  (\E j \in PositionsAt(ret.value[m].index) : found[j].reliability = "High")
                      => ret.value[m].main_pattern.reliability # "Medium"

\* a chart with an index where a High pattern was detected after a Medium one
\* and an index where two different patterns share the highest rank
C11_Witness ==
    /\ DrewChart
    /\ \E m \in 1..Len(ret.value) :
           \E j, k \in PositionsAt(ret.value[m].index) :
               /\ j < k
               /\ pattern_detector.patterns[j].reliability = "Medium"
               /\ pattern_detector.patterns[k].reliability = "High"
               /\ ret.value[m].main_pattern = pattern_detector.patterns[k]
    /\ \E m \in 1..Len(ret.value) :
           \E j, k \in PositionsAt(ret.value[m].index) :
               /\ j < k
               /\ Rank(pattern_detector.patterns[j]) = Rank(pattern_detector.patterns[k])
               /\ pattern_detector.patterns[j].pattern # pattern_detector.patterns[k].pattern
               /\ ret.value[m].main_pattern = pattern_detector.patterns[j]

\* ---------------------------------------------------------------------------
\* C12  detect_all_patterns returns every hit of every detector, no
\* (index, pattern name) pair occurs twice in the list, and a further call on
\* the same detector returns the list of the call before instead of adding to
\* it.
\* what the 22 detectors find at row i, each within the rows its loop visits
HitsAt(d, i) ==
    Range(doji_at(d, i)) \cup Range(spinning_top_at(d, i))
    \cup Range(marubozu_at(d, i)) \cup Range(long_legged_doji_at(d, i))
    \cup Range(dragonfly_doji_at(d, i)) \cup Range(gravestone_doji_at(d, i))
    \cup (IF i < 1 THEN {}
          ELSE Range(hammer_at(d, i)) \cup Range(hanging_man_at(d, i))
               \cup Range(shooting_star_at(d, i)) \cup Range(inverted_hammer_at(d, i))
               \cup Range(engulfing_at(d, i)) \cup Range(harami_at(d, i))
               \cup Range(piercing_line_at(d, i)) \cup Range(dark_cloud_cover_at(d, i))
               \cup Range(tweezer_at(d, i)))
    \cup (IF i < 2 THEN {}
          ELSE Range(morning_star_at(d, i)) \cup Range(evening_star_at(d, i))
               \cup Range(three_white_soldiers_at(d, i))
               \cup Range(three_black_crows_at(d, i))
               \cup Range(three_inside_at(d, i)) \cup Range(three_outside_at(d, i)))
    \cup (IF i < 4 THEN {} ELSE Range(three_methods_at(d, i)))

Scanned == ret.op = "detect_all_patterns" /\ ret.kind = "value"

C12_ScanComplete ==
    Scanned =>
        /\ ret.value = pattern_detector.patterns
        /\ Range(ret.value)
               = UNION {HitsAt(pattern_detector, i) : i \in 0..(Len(pattern_detector.data) - 1)}
        /\ \A j, k \in 1..Len(ret.value) :
               (ret.value[j].index = ret.value[k].index
                /\ ret.value[j].pattern = ret.value[k].pattern) => j = k

C12_ScanOnce ==
    /\ []C12_ScanComplete
    /\ [][(ret'.op = "detect_all_patterns" /\ ret'.args = <<TRUE>>)
              => ret'.value = pattern_detector.patterns]_vars

\* a repeated scan that returns several patterns, two of them at one index
C12_Witness ==
    /\ Scanned
    /\ ret.args = <<TRUE>>
    /\ \E j, k \in 1..Len(ret.value) :
           j # k /\ ret.value[j].index = ret.value[k].index
    /\ \E j, k \in 1..Len(ret.value) : ret.value[j].index # ret.value[k].index

\* ---------------------------------------------------------------------------
\* C13  In the statistics every detected pattern is counted in exactly one of
\* the three signal classes: bullish_patterns + bearish_patterns +
\* neutral_patterns = total_patterns = the number of detected patterns, and
\* the counts of pattern_types sum to total_patterns as well.
RECURSIVE SumCounts(_)
SumCounts(types) ==
    IF types = <<>> THEN 0
    ELSE types[1].count + SumCounts(SubSeq(types, 2, Len(types)))

GotStatistics ==
    ret.op = "get_pattern_statistics" /\ ret.kind = "value" /\ ~ret.value.empty

C13_ClassesAddUp ==
    GotStatistics =>
        /\ ret.value.total_patterns = Len(pattern_detector.patterns)
        /\ ret.value.bullish_patterns + ret.value.bearish_patterns
               + ret.value.neutral_patterns = ret.value.total_patterns
        /\ SumCounts(ret.value.pattern_types) = ret.value.total_patterns

\* ---------------------------------------------------------------------------
\* C14  Every pattern record a detector emits has an index in
\* [0, len(series)), a signal that is one of the seven signal variants
\* (bullish reversal, bearish reversal, bullish continuation, bearish
\* continuation, neutral/indecision, strong bullish, strong bearish) and a
\* reliability that is one of Low, Medium, High, Very High.
\* The strings of the code that name the seven variants; the variant
\* neutral/indecision is taken to cover every string naming neutrality or
\* indecision.
SignalVariants ==
    {"Bullish Reversal", "Bearish Reversal", "Bullish Continuation",
     "Bearish Continuation", "Neutral", "Indecision", "High Indecision",
     "Strong Bullish", "Strong Bearish"}

ReliabilityLevels == {"Low", "Medium", "High", "Very High"}

IndexInSeries(p) == p.index \in 0..(Len(pattern_detector.data) - 1)

C14_RecordsWellFormed ==
    \A k \in 1..Len(pattern_detector.patterns) :
        /\ IndexInSeries(pattern_detector.patterns[k])
        /\ pattern_detector.patterns[k].signal \in SignalVariants
        /\ pattern_detector.patterns[k].reliability \in ReliabilityLevels

\* ---------------------------------------------------------------------------
\* C15  What _prepare_data_for_json and _convert_to_serializable return holds
\* no NaN and no +Infinity/-Infinity at any nesting depth: every such number,
\* numpy scalar or plain float, inside dicts, lists or arrays, has become
\* null.
RECURSIVE HasNonFinite(_)
HasNonFinite(v) ==
    \/ v.kind \in {"float", "npfloat"} /\ is_nan_or_inf(v)
    \/ \E i \in 1..Len(v.items) : HasNonFinite(v.items[i])

Scrubbed == ret.op \in {"_prepare_data_for_json", "_convert_to_serializable"}

C15_NoNaNInfinity == Scrubbed => ~HasNonFinite(ret.value)

\* ---------------------------------------------------------------------------
\* C16  Runs are independent: when fetch_data fails or yields an empty series
\* on an object that has completed a run, a later call of
\* calculate_trend_strength, calculate_probabilities, calculate_price_targets
\* or get_market_sentiment returns no result derived from the earlier run.
\* Stated for the call that follows the failed fetch: it returns what it
\* returns on an object without a run (the score of no indicators; no
\* probabilities, targets or sentiment).
FailedFetch == ret.op = "fetch_data" /\ ret.kind = "value" /\ ret.value = FALSE

C16_RunsIndependent ==
    [][(FailedFetch /\ ~indicators.empty) =>
          /\ ret'.op = "calculate_trend_strength"
                 => ret'.value = calculate_trend_strength(NewAnalysis)
          /\ ret'.op \in {"calculate_probabilities", "calculate_price_targets",
                          "get_market_sentiment"}
                 => ret'.kind # "value"]_vars

\* ---------------------------------------------------------------------------
\* C17  In every windowed indicator column calculate_all_indicators attaches,
\* in particular each moving average EMA_p / SMA_p of period p, the first
\* p - 1 positions are null: no value is defined before position p - 1.
WarmupNull(column, period) ==
    \A i \in 1..Len(column) : i < period => ~IsNum(column[i])

C17_WarmupNull ==
    (ret.op = "_calculate_moving_averages" /\ ret.kind = "value") =>
        /\ \A k \in 1..Len(SMA_PERIODS) : WarmupNull(ret.value.sma[k], SMA_PERIODS[k])
        /\ \A k \in 1..Len(EMA_PERIODS) : WarmupNull(ret.value.ema[k], EMA_PERIODS[k])

\* ---------------------------------------------------------------------------
\* C18  In get_market_sentiment the neutral override is decided before the
\* signal bias is added to the score (its |score| < 15 test sees the trend
\* strength of calculate_trend_strength), while the thresholds classify the
\* score after the bias was added.
\* As amended: the bias is added first; the override's |score| < 15 test and
\* the thresholds both see the score with the bias.
UnadjustedStrength == calculate_trend_strength(Self).final_score

SignalCounts == calculate_probabilities(Self).value

\* the score n / d plus (bullish - bearish) / total * 20
WithBias(score, counts) ==
    IF counts.total_signals > 0
    THEN [n |-> score.n * counts.total_signals
                + 20 * (counts.bullish_signals - counts.bearish_signals) * score.d,
          d |-> score.d * counts.total_signals]
    ELSE score

Below15(score) == score.n < 15 * score.d /\ score.n > -15 * score.d

MostlyNeutral(counts) == 10 * counts.neutral_signals > 6 * counts.total_signals

Overridden == ret.value.full_reasoning[1] = "Hohe Neutralitaet, Konsolidierung"

C18_OverrideBeforeBias ==
    CalledOk("get_market_sentiment") =>
        /\ Overridden <=> (MostlyNeutral(SignalCounts) /\ Below15(UnadjustedStrength))
        /\ ~Overridden =>
               ret.value.sentiment = LabelOf(WithBias(UnadjustedStrength, SignalCounts))

C18_BiasBeforeOverride ==
    CalledOk("get_market_sentiment") =>
        LET adjusted == WithBias(UnadjustedStrength, SignalCounts)
        IN /\ ret.value.trend_strength.n * adjusted.d = adjusted.n * ret.value.trend_strength.d
           /\ Overridden <=> (MostlyNeutral(SignalCounts) /\ Below15(adjusted))
           /\ ~Overridden => ret.value.sentiment = LabelOf(adjusted)

\* mostly neutral signals and a score that is below 15 only without the bias,
\* or only with it
C18_Witness ==
    /\ CalledOk("get_market_sentiment")
    /\ MostlyNeutral(SignalCounts)
    /\ Below15(UnadjustedStrength) # Below15(WithBias(UnadjustedStrength, SignalCounts))

\* C19  In calculate_trend_strength the RSI factor contributes +2 for
\* RSI > 70, +1 for RSI in the 50-70 band, -2 for RSI < 30 and -1 for RSI in
\* the 30-50 band, and adds the magnitude of the contribution to total_weight;
\* every defined RSI in [0, 100] falls in one of the cases.  (At exactly 50
\* the statement names two bands; either is accepted.)  Scores and weights
\* are doubled as in Contribute.
ClaimedRSIFactor(rsi) ==
    IF rsi.v > 70 THEN {[score |-> 4, weight |-> 4]}
    ELSE IF rsi.v > 50 THEN {[score |-> 2, weight |-> 2]}
    ELSE IF rsi.v = 50 THEN {[score |-> 2, weight |-> 2], [score |-> -2, weight |-> 2]}
    ELSE IF rsi.v >= 30 THEN {[score |-> -2, weight |-> 2]}
    ELSE {[score |-> -4, weight |-> 4]}

\* the five factors after the RSI factor, applied to its accumulator
FactorsAfterRSI(acc) ==
    LET a2 == macd_factor(acc, indicators)
        a3 == adx_factor(a2, indicators)
        a4 == ma_factor(a3, Self)
        a5 == bb_factor(a4, indicators)
    IN obv_factor(a5, Self)

SameScore(x, y) == x.n * y.d = y.n * x.d

DefinedRSI ==
    /\ CalledOk("calculate_trend_strength")
    /\ ~indicators.empty
    /\ IsNum(indicators.RSI)
    /\ indicators.RSI.v >= 0
    /\ indicators.RSI.v <= 100

C19_RSIFactor ==
    DefinedRSI =>
        /\ \E c \in ClaimedRSIFactor(indicators.RSI) :
               /\ rsi_factor(Acc0, indicators).score = c.score
               /\ rsi_factor(Acc0, indicators).weight = c.weight
        /\ \E c \in ClaimedRSIFactor(indicators.RSI) :
               SameScore(ret.value.final_score,
                         normalize(FactorsAfterRSI(Contribute(Acc0, c.score, c.weight, ""))))

\* C20  In calculate_trend_strength the volume-flow factor compares the current
\* OBV with the OBV five bars earlier: +1 only when the OBV has risen by more
\* than 2% of that earlier value, -1 only when it has fallen by more than 2%,
\* 0 otherwise, with weight 1 in all three cases; for positive and negative
\* OBV, and for series of five bars or fewer, where no change is measured.
\* Scores and weights are doubled as in Contribute.
EarlierOBV ==
    IF Len(data.rows) > 5 THEN data.cols.OBV_5back ELSE data.cols.OBV

\* the change cur - prev against 2% of the size of prev
ClaimedOBVScore(cur, prev) ==
    IF 100 * (cur.v - prev.v) > 2 * Abs(prev.v) THEN 2
    ELSE IF 100 * (cur.v - prev.v) < -2 * Abs(prev.v) THEN -2
    ELSE 0

\* the five factors before the volume-flow factor
FactorsBeforeOBV ==
    LET a1 == rsi_factor(Acc0, indicators)
        a2 == macd_factor(a1, indicators)
        a3 == adx_factor(a2, indicators)
        a4 == ma_factor(a3, Self)
    IN bb_factor(a4, indicators)

\* a trend strength computed with a positive or negative OBV on the frame
DefinedOBV ==
    /\ CalledOk("calculate_trend_strength")
    /\ ~indicators.empty
    /\ ~data.isNone
    /\ data.cols.attached
    /\ IsNum(indicators.OBV)
    /\ indicators.OBV.v # 0
    /\ IsNum(data.cols.OBV)
    /\ IsNum(EarlierOBV)

C20_OBVFactor ==
    DefinedOBV =>
        LET claimed == ClaimedOBVScore(data.cols.OBV, EarlierOBV)
            before == FactorsBeforeOBV
            after == obv_factor(before, Self)
        IN /\ after.score = before.score + claimed
           /\ after.weight = before.weight + 2
           /\ SameScore(ret.value.final_score,
                        normalize(Contribute(before, claimed, 2, "")))

\* C21  calculate_fibonacci_levels takes high = max High and low = min Low of
\* the series and returns, for every ratio r of FIBONACCI_LEVELS, the
\* retracement level high - (high - low) * r; a retracement level for a ratio
\* in [0, 1] lies in [low, high]; every extension level belongs to a ratio
\* above 1 and is at least high, strictly above it when high > low.
Highs == {data.rows[i].High : i \in 1..Len(data.rows)}

Lows == {data.rows[i].Low : i \in 1..Len(data.rows)}

GotFibonacci == CalledOk("calculate_fibonacci_levels")

C21_FibonacciLevels ==
    GotFibonacci =>
        LET fib == ret.value
            high == fib.high
            low == fib.low
        IN /\ fibonacci_levels = fib
           /\ high \in Highs /\ \A h \in Highs : h <= high
           /\ low \in Lows /\ \A l \in Lows : low <= l
           /\ Len(fib.retracement) = Len(FIBONACCI_LEVELS)
           /\ \A k \in 1..Len(FIBONACCI_LEVELS) :
                  LET r == fib.retracement[k]
                  IN /\ r.level = FIBONACCI_LEVELS[k]
                     /\ r.price * 1000 = PScale * (1000 * high - (high - low) * r.level)
                     /\ (r.level >= 0 /\ r.level <= 1000) =>
                            (PScale * low <= r.price /\ r.price <= PScale * high)
           /\ \A k \in 1..Len(fib.extension) :
                  LET e == fib.extension[k]
                  IN /\ e.level > 1000
                     /\ e.price >= PScale * high
                     /\ high > low => e.price > PScale * high

\* levels of a series whose high lies above its low
C21_Witness ==
    /\ GotFibonacci
    /\ ret.value.high > ret.value.low
    /\ \E k \in 1..Len(ret.value.retracement) :
           /\ ret.value.retracement[k].price > PScale * ret.value.low
           /\ ret.value.retracement[k].price < PScale * ret.value.high

\* C22  _get_trend(idx) is 'uptrend' iff idx >= 5 and Close[idx - 1] >
\* 1.02 * Close[idx - 5], 'downtrend' iff idx >= 5 and Close[idx - 1] <
\* 0.98 * Close[idx - 5], 'sideways' for the other idx >= 5 and 'unknown' for
\* idx < 5; hence no pattern that requires an uptrend or a downtrend is
\* emitted at an index below 5, and no Morning or Evening Star below index 7.
CloseAt(idx) == pattern_detector.data[idx + 1].Close

TrendGated ==
    {"Hammer", "Hanging Man", "Shooting Star", "Inverted Hammer",
     "Bullish Engulfing", "Bearish Engulfing", "Bullish Harami", "Bearish Harami",
     "Piercing Line", "Dark Cloud Cover", "Tweezer Top", "Tweezer Bottom"}

Stars == {"Morning Star", "Evening Star"}

DetectedPatterns == Range(pattern_detector.patterns)

C22_TrendBeforeRow ==
    /\ CalledOk("_get_trend") =>
           LET idx == ret.args[1]
               rising == idx >= 5 /\ 100 * CloseAt(idx - 1) > 102 * CloseAt(idx - 5)
               falling == idx >= 5 /\ 100 * CloseAt(idx - 1) < 98 * CloseAt(idx - 5)
           IN /\ ret.value = "uptrend" <=> rising
              /\ ret.value = "downtrend" <=> falling
              /\ ret.value = "sideways" <=> (idx >= 5 /\ ~rising /\ ~falling)
              /\ ret.value = "unknown" <=> idx < 5
    /\ \A p \in DetectedPatterns :
           /\ p.pattern \in TrendGated => p.index >= 5
           /\ p.pattern \in Stars => p.index >= 7

\* a scan that found a Morning Star at row 7 and a pattern that needs a trend
\* at row 5 or later
C22_Witness ==
    /\ \E p \in DetectedPatterns : p.pattern \in Stars /\ p.index = 7
    /\ \E p \in DetectedPatterns : p.pattern \in TrendGated /\ p.index >= 5

\* C23  A Doji is emitted at row i iff High > Low and body / (High - Low) <
\* 0.1; a Bullish or Bearish Marubozu iff High > Low and body / (High - Low) >
\* 0.95; a Hammer iff i >= 1, lower shadow > 2 * body, upper shadow <
\* 0.3 * body and the trend before the row is a downtrend.  A row with
\* High = Low yields no pattern that rests on such a ratio, the scan does not
\* raise, and Doji and Marubozu never share a row.
RatioBased ==
    {"Doji", "Bullish Marubozu", "Bearish Marubozu", "Spinning Top",
     "Long-Legged Doji", "Dragonfly Doji", "Gravestone Doji"}

NamesAt(i) == {p.pattern : p \in {q \in DetectedPatterns : q.index = i}}

RowAt(i) == pattern_detector.data[i + 1]

BodyOf(c) == Abs(c.Close - c.Open)

TopOf(c) == IF c.Close > c.Open THEN c.Close ELSE c.Open

BottomOf(c) == IF c.Close < c.Open THEN c.Close ELSE c.Open

FallingBefore(i) == i >= 5 /\ 100 * CloseAt(i - 1) < 98 * CloseAt(i - 5)

C23_SingleCandleGeometry ==
    /\ ret.op = "detect_all_patterns" => ret.kind = "value"
    /\ Scanned =>
           \A i \in 0..(Len(pattern_detector.data) - 1) :
               LET c == RowAt(i)
                   range == c.High - c.Low
                   names == NamesAt(i)
               IN /\ "Doji" \in names <=> (c.High > c.Low /\ 10 * BodyOf(c) < range)
                  /\ "Bullish Marubozu" \in names
                         <=> (c.High > c.Low /\ 100 * BodyOf(c) > 95 * range
                              /\ c.Close > c.Open)
                  /\ "Bearish Marubozu" \in names
                         <=> (c.High > c.Low /\ 100 * BodyOf(c) > 95 * range
                              /\ c.Close < c.Open)
                  /\ "Hammer" \in names
                         <=> (/\ i >= 1
                              /\ BottomOf(c) - c.Low > 2 * BodyOf(c)
                              /\ 10 * (c.High - TopOf(c)) < 3 * BodyOf(c)
                              /\ FallingBefore(i))
                  /\ c.High = c.Low => names \cap RatioBased = {}
                  /\ ~({"Doji"} \subseteq names
                       /\ names \cap {"Bullish Marubozu", "Bearish Marubozu"} # {})

\* a scan of a decline of rows without range that ends in a hammer
C23_Witness ==
    /\ Scanned
    /\ \E i \in 0..(Len(pattern_detector.data) - 1) : RowAt(i).High = RowAt(i).Low
    /\ \E p \in DetectedPatterns : p.pattern = "Hammer"

\* C24  For every strictly rising series of 10 candles without shadows
\* (Open = Low < Close = High in every row, opens and closes strictly
\* increasing from row to row) detect_all_patterns emits no Doji, no Hammer
\* and no Shooting Star, and at least one Three White Soldiers.
IsNoWickRise(rows) ==
    /\ Len(rows) = 10
    /\ \A k \in 1..10 :
           /\ rows[k].Open = rows[k].Low
           /\ rows[k].Close = rows[k].High
           /\ rows[k].Open < rows[k].Close
    /\ \A k \in 1..9 :
           /\ rows[k].Open < rows[k + 1].Open
           /\ rows[k].Close < rows[k + 1].Close

ScannedRise == Scanned /\ IsNoWickRise(pattern_detector.data)

C24_RisingWithoutShadows ==
    ScannedRise =>
        /\ \A p \in DetectedPatterns : p.pattern \notin {"Doji", "Hammer", "Shooting Star"}
        /\ \E p \in DetectedPatterns : p.pattern = "Three White Soldiers"

\* such a series with a gap between two candles whose last row follows an
\* uptrend
C24_Witness ==
    /\ ScannedRise
    /\ \E k \in 1..9 : pattern_detector.data[k].Close < pattern_detector.data[k + 1].Open
    /\ 100 * CloseAt(8) > 102 * CloseAt(4)

\* C25  For every flat series (Open = High = Low = Close equal to one constant
\* in all rows, one row or more) identify_support_resistance returns an empty
\* support list and an empty resistance list and does not raise: the only
\* candidate equals the current price, which the strict filters exclude.
IsFlat(rows) ==
    /\ Len(rows) >= 1
    /\ \A k \in 1..Len(rows) :
           /\ rows[k].Open = rows[1].Close
           /\ rows[k].High = rows[1].Close
           /\ rows[k].Low = rows[1].Close
           /\ rows[k].Close = rows[1].Close

LevelsOfFlat ==
    /\ ret.op = "identify_support_resistance"
    /\ ~data.isNone
    /\ IsFlat(data.rows)

C25_FlatSeriesNoLevels ==
    LevelsOfFlat =>
        /\ ret.kind = "value"
        /\ ret.value.support = <<>>
        /\ ret.value.resistance = <<>>
        /\ support_resistance = ret.value

\* a flat series of several rows searched with a window that fits into it, so
\* that the constant is a candidate on both sides
C25_Witness ==
    /\ LevelsOfFlat
    /\ Len(data.rows) >= 2
    /\ ret.args[1] <= Len(data.rows)
    /\ all_support(data.rows, ret.args[1]) # <<>>
    /\ all_resistance(data.rows, ret.args[1]) # <<>>

\* C26  In calculate_trend_strength |trend_score| <= total_weight after each
\* factor (each factor adds a weight at least as large as the magnitude of
\* its contribution, Bollinger and OBV also when they contribute 0); so the
\* normalized result lies in [-50, 50] and the clamp to [-100, 100] never
\* changes it.
Bounded(acc) == Abs(acc.score) <= acc.weight

\* the accumulator after 1, 2, ... 6 factors
FactorSteps ==
    LET a1 == rsi_factor(Acc0, indicators)
        a2 == macd_factor(a1, indicators)
        a3 == adx_factor(a2, indicators)
        a4 == ma_factor(a3, Self)
        a5 == bb_factor(a4, indicators)
        a6 == obv_factor(a5, Self)
    IN <<a1, a2, a3, a4, a5, a6>>

GotTrendStrength == CalledOk("calculate_trend_strength") /\ ~indicators.empty

C26_ScoreWithinWeight ==
    GotTrendStrength =>
        LET steps == FactorSteps
            s == ret.value.final_score
        IN /\ \A k \in 1..6 : Bounded(steps[k])
           /\ steps[6].weight > 0 =>
                  SameScore(s, Frac(50 * steps[6].score, steps[6].weight))
           /\ s.d > 0 /\ -50 * s.d <= s.n /\ s.n <= 50 * s.d

\* a trend strength of exactly 50 or -50 from factors that all carry weight
C26_Witness ==
    /\ GotTrendStrength
    /\ Abs(ret.value.final_score.n) = 50 * ret.value.final_score.d
    /\ FactorSteps[6].weight > FactorSteps[5].weight
    /\ FactorSteps[5].weight > FactorSteps[4].weight

\* C27  In every result of calculate_probabilities bullish_signals +
\* bearish_signals + neutral_signals = total_signals: each entry of the
\* checklist that increments total_signals casts one vote (two for ADX < 20),
\* also when the MACD histogram, Stochastic %K or the Bollinger position is
\* exactly 0 or missing.
VotesCast(p) == p.bullish_signals + p.bearish_signals + p.neutral_signals

C27_VotesAddUp ==
    CalledOk("calculate_probabilities") => VotesCast(ret.value) = ret.value.total_signals

\* C28  The 'recent_patterns' entry of get_pattern_statistics holds the (up to
\* 5) most recent hits of the scan: no hit outside recent_patterns has a
\* larger row index than a hit inside it.
HitsOutside(recent) == DetectedPatterns \ Range(recent)

C28_RecentPatternsAreLatest ==
    (GotStatistics /\ ~ret.value.empty) =>
        LET recent == ret.value.recent_patterns
        IN /\ Range(recent) \subseteq DetectedPatterns
           /\ Len(recent) = Min(5, Len(pattern_detector.patterns))
           /\ \A p \in HitsOutside(recent), q \in Range(recent) : p.index <= q.index

\* C29  calculate_price_targets only reads the levels stored on the object:
\* Fibonacci targets appear only if calculate_fibonacci_levels was called
\* before, 'Key Support' / 'Key Resistance' targets only if
\* identify_support_resistance was, pivot targets only if
\* calculate_all_indicators was; on a series with rows, before all three, it
\* returns two empty lists; and it leaves self.data, self.indicators,
\* self.fibonacci_levels and self.support_resistance unchanged.
\* The three stores are empty at first and each is filled by its own call
\* only, so a store that is filled tells of the earlier call.
GotTargets == CalledOk("calculate_price_targets")

TargetKinds ==
    {ret.value.bullish[k].level.kind : k \in 1..Len(ret.value.bullish)}
    \cup {ret.value.bearish[k].level.kind : k \in 1..Len(ret.value.bearish)}

FibonacciKinds == {"Fib Retracement", "Fib Extension"}

KeyKinds == {"Key Support", "Key Resistance"}

PivotKinds == {"Resistance R", "Support S"}

NothingStored ==
    fibonacci_levels.empty /\ indicators.empty /\ support_resistance.empty

TargetsFromStores ==
    GotTargets =>
        /\ TargetKinds \cap FibonacciKinds # {} => ~fibonacci_levels.empty
        /\ TargetKinds \cap KeyKinds # {} => ~support_resistance.empty
        /\ TargetKinds \cap PivotKinds # {} => ~indicators.empty
        /\ NothingStored => (ret.value.bullish = <<>> /\ ret.value.bearish = <<>>)

StoresFilledByTheirCalls ==
    /\ (fibonacci_levels.empty /\ ~fibonacci_levels'.empty)
           => ret'.op = "calculate_fibonacci_levels"
    /\ (support_resistance.empty /\ ~support_resistance'.empty)
           => ret'.op = "identify_support_resistance"
    /\ (indicators.empty /\ ~indicators'.empty)
           => ret'.op = "calculate_all_indicators"

TargetsOnlyRead ==
    ret'.op = "calculate_price_targets"
        => UNCHANGED <<data, indicators, fibonacci_levels, support_resistance>>

C29_TargetsReadStoredLevels ==
    /\ NothingStored
    /\ []TargetsFromStores
    /\ [][StoresFilledByTheirCalls /\ TargetsOnlyRead]_vars

\* targets computed when only the Fibonacci levels were stored: Fibonacci
\* targets and no others
C29_Witness ==
    /\ GotTargets
    /\ ~fibonacci_levels.empty /\ indicators.empty /\ support_resistance.empty
    /\ TargetKinds \cap FibonacciKinds # {}

\* C30  identify_support_resistance(window = w) reports the Low (High) of a
\* row as support (resistance) only if the whole centered window of w rows
\* of that row lies inside the series and the Low (High) is the minimum
\* (maximum) of the window: a series of fewer than w rows yields empty lists,
\* and an extreme at a row whose window is incomplete is not reported unless
\* the same price occurs at a row that qualifies.  Rows count from 1 here.
WindowOf(w, i) == (i - (w \div 2))..(i + ((w - 1) \div 2))

WindowInside(w, i) == WindowOf(w, i) \subseteq 1..Len(data.rows)

QualifiesAsLow(w, i) ==
    /\ WindowInside(w, i)
    /\ \A j \in WindowOf(w, i) : data.rows[i].Low <= data.rows[j].Low

QualifiesAsHigh(w, i) ==
    /\ WindowInside(w, i)
    /\ \A j \in WindowOf(w, i) : data.rows[i].High >= data.rows[j].High

GotLevels == CalledOk("identify_support_resistance")

C30_FullWindowOnly ==
    GotLevels =>
        LET w == ret.args[1]
            n == Len(data.rows)
        IN /\ \A v \in Range(ret.value.support) :
                  \E i \in 1..n : data.rows[i].Low = v /\ QualifiesAsLow(w, i)
           /\ \A v \in Range(ret.value.resistance) :
                  \E i \in 1..n : data.rows[i].High = v /\ QualifiesAsHigh(w, i)
           /\ n < w => (ret.value.support = <<>> /\ ret.value.resistance = <<>>)

\* a support is reported, and the lowest Low of the series, at a row whose
\* window is incomplete and below the current price, is not
C30_Witness ==
    /\ GotLevels
    /\ ret.value.support # <<>>
    /\ \E i \in 1..Len(data.rows) :
           /\ ~WindowInside(ret.args[1], i)
           /\ data.rows[i].Low < LastClose
           /\ \A v \in Range(ret.value.support) : data.rows[i].Low < v

====
